---------------------------- MODULE Spec2Model ----------------------------
(***************************************************************************)
(* Reply lifecycle manager of wildresponder (backend/app/main.py with its  *)
(* collaborators ai_responder.py and wb_api.py): the response cache and    *)
(* its persisted store, the single-item generation and reply endpoints,    *)
(* and the two-phase rate-limited bulk auto-reply run.                     *)
(*                                                                         *)
(* Texts are TLA+ strings.  The Russian literals of the source are written *)
(* in a letter-by-letter Latin transliteration that keeps case, so that    *)
(* str.startswith compares the same characters; the original literal is    *)
(* quoted in the comment next to each one.                                 *)
(***************************************************************************)
EXTENDS Integers, Sequences, FiniteSets, TLC

(***************************************************************************)
(* Bounds of the model.                                                    *)
(***************************************************************************)
\* item ids addressed by the HTTP requests of Spec
MaxItems == 2
\* distinct genuine drafts the AI backend can produce
MaxDrafts == 1
\* largest size of the unanswered-feedback snapshot of a bulk run
MaxFeedbacks == 3
\* snapshot size of the rate-limiter scenarios (SpecRate)
MaxRateItems == 5
\* longest duration of one marketplace call, in clock ticks (SpecRate)
MaxLatency == 2
\* clock ticks per second (resolution of time.time() in the model)
TicksPerSecond == 2
\* background jobs that may run (run 0 is the synchronous endpoint call)
MaxJobs == 2
\* longest JSON array found in the cache file at process start (SpecStartup)
MaxArrayLen == 2
\* feedbacks on the marketplace while background jobs run
MaxJobItems == 1

(***************************************************************************)
(* Numbers of the source.                                                  *)
(***************************************************************************)
\* main.py:215, "if sent_in_current_second >= 3"
RateLimit == 3
\* main.py:202, "if fb.productValuation != 5"
FiveStars == 5

(***************************************************************************)
(* Strings of the source.                                                  *)
(***************************************************************************)
\* "Ошибка", "API-ключ", "Не удалось": the prefixes tested before a cache write
PrefixOshibka == "Oshibka"
PrefixApiKey == "API-klyuch"
PrefixNeUdalos == "Ne udalos"

\* "Не удалось получить ответ от ИИ. Попробуйте еще раз."
ErrNetwork == "Ne udalos poluchit otvet ot II. Poprobuyte eshche raz."
\* "Не удалось обработать ответ от ИИ. Структура ответа изменилась."
ErrParse == "Ne udalos obrabotat otvet ot II. Struktura otveta izmenilas."
\* f"Произошла непредвиденная ошибка: {e}"
ErrUnexpected(e) == "Proizoshla nepredvidennaya oshibka: " \o e
\* "Пустой ответ ИИ"
ErrEmptyAi == "Pustoy otvet II"
\* "Не удалось отправить ответ в WB"
ErrSendWb == "Ne udalos otpravit otvet v WB"

\* Python's None / the empty string of an optional text field (both falsy)
NoText == ""
\* marker of "no entry" when a cache lookup is recorded
NoEntry == "<absent>"

StartsWith(s, p) == Len(s) >= Len(p) /\ SubSeq(s, 1, Len(p)) = p

RECURSIVE LStrip(_)
LStrip(s) == IF Len(s) > 0 /\ SubSeq(s, 1, 1) = " " THEN LStrip(SubSeq(s, 2, Len(s))) ELSE s

RECURSIVE RStrip(_)
RStrip(s) ==
    IF Len(s) > 0 /\ SubSeq(s, Len(s), Len(s)) = " " THEN RStrip(SubSeq(s, 1, Len(s) - 1)) ELSE s

\* _normalize_text on a single-line text: the per-line strip and the final
\* strip remove the surrounding blanks (the texts of the model hold no line
\* break, so no blank line is there to collapse)
NormalizeText(s) == RStrip(LStrip(s))


(***************************************************************************)
(* State.                                                                  *)
(***************************************************************************)
VARIABLES
    cache,       \* response_cache: item id -> reply text (main.py:23)
    store,       \* content of CACHE_FILE, the persisted mapping (main.py:22)
    writable,    \* whether open(CACHE_FILE, 'w') succeeds
    wbKey,       \* whether WB_API_KEY is set (wb_api.py:10)
    unanswered,  \* the marketplace's unanswered feedbacks, newest first
    netLatency,  \* longest duration of a marketplace call in this world, in ticks
    now,         \* time.time(), in ticks
    last,        \* the most recent HTTP request with its response
    run,         \* locals of the bulk run _run_auto_reply_5_stars_feedbacks_sync
    file,        \* what is found at the path CACHE_FILE (main.py:22)
    boot,        \* the startup handler: its position and what it loaded and fetched
    job_results, \* job_results: job id -> record (main.py:27)
    job_counter, \* job_counter (main.py:28)
    current_feedbacks_list,  \* current_feedbacks_list (main.py:32)
    alice        \* locals of the alice_webhook call that is replying by ordinals

cacheVars == <<cache, store>>
bootVars == <<file, boot>>
voiceVars == <<job_results, job_counter, current_feedbacks_list, alice>>
vars == <<cache, store, writable, wbKey, unanswered, netLatency, now, last, run,
          file, boot, job_results, job_counter, current_feedbacks_list, alice>>

Ids == 1 .. MaxItems

\* a dict as a function on its key set
EmptyDict == [k \in {} |-> NoText]
Put(d, k, v) == [x \in DOMAIN d \cup {k} |-> IF x = k THEN v ELSE d[x]]
Del(d, k) == [x \in DOMAIN d \ {k} |-> d[x]]

(***************************************************************************)
(* DraftGenerator: ai_responder.generate_ai_response.                      *)
(***************************************************************************)
\* what the AI backend's text field may hold: drafts (with blanks around
\* them, as models emit), a blank-only text, a text that happens to open with
\* the word "Ошибка"
RawTexts ==
    {" Spasibo za otzyv! Variant " \o ToString(k) \o " " : k \in 1 .. MaxDrafts}
        \cup {"   ", "Oshibka v razmere? Napishite nam."}

\* str(e) of an exception that is neither a RequestException nor a
\* KeyError/IndexError, e.g. the TypeError of result["candidates"][0] on null
ExcMessages == {"'NoneType' object is not subscriptable"}

\* the ways one call of the backend ends (_call_gemini, ai_responder.py:84-95)
BackendOutcomes ==
    [kind : {"text"}, text : RawTexts]
        \cup [kind : {"RequestException", "KeyError"}, text : {NoText}]
        \cup [kind : {"Exception"}, text : ExcMessages]

generate_ai_response(o) ==
    CASE o.kind = "text" -> NormalizeText(o.text)
      [] o.kind = "RequestException" -> ErrNetwork
      [] o.kind = "KeyError" -> ErrParse
      [] OTHER -> ErrUnexpected(o.text)

\* the outcomes in which the backend failed (the except branches)
FailureOutcomes == {o \in BackendOutcomes : o.kind # "text"}

\* the cache-write test, the same expression at main.py:188, 467 and 746
\* (first a faulty variant that tests for emptiness only)
IsCacheable_NoPrefixTest(t) == t # NoText
IsCacheable(t) ==
    /\ t # NoText
    /\ ~StartsWith(t, PrefixOshibka)
    /\ ~StartsWith(t, PrefixApiKey)
    /\ ~StartsWith(t, PrefixNeUdalos)

\* save_cache: the store after the write (an unwritable store keeps its
\* content and the write raises)
SaveCache(c) == IF writable THEN c ELSE store

(***************************************************************************)
(* ReplySubmitter: wb_api.reply_to_item.                                   *)
(***************************************************************************)
ItemTypes == {"feedbacks", "questions", "reviews"}

\* how one call of reply_to_item ends: "raise" for an item_type other than
\* feedbacks/questions or a missing API key (get_wb_api_headers), else what
\* the network decides: TRUE, or FALSE on a RequestException
reply_to_item(item_type, net) ==
    IF item_type \notin {"feedbacks", "questions"} \/ ~wbKey
    THEN "raise"
    ELSE IF net THEN "ok" ELSE "fail"

\* the answers the network can give to a call of reply_to_item: the call is
\* sent only past the checks that raise
NetAnswers(item_type) ==
    IF reply_to_item(item_type, TRUE) = "raise" THEN {FALSE} ELSE BOOLEAN

\* the marketplace drops an answered item from its unanswered list
MarkAnswered(u, id) == SelectSeq(u, LAMBDA f : f.id # id)

(***************************************************************************)
(* The HTTP requests.  `last` is the request most recently served: its     *)
(* fields, the response, and what the handler did on the way (gen: calls   *)
(* of the generator, out: what the generator returned, had: the item's     *)
(* cache entry when the request came, sub: how the submitter call ended,   *)
(* sent: the text handed to it; for a webhook request cmd is the command   *)
(* as extracted, text and end the response's text and end_session, and     *)
(* status 500 stands for an exception that left the handler).              *)
(***************************************************************************)
Prompts == {NoText, "Otvet koroche"}

NoRequest ==
    [op |-> "none", id |-> 0, force |-> FALSE, prompt |-> NoText, type |-> "none",
     status |-> 0, text |-> NoText, gen |-> 0, had |-> NoEntry, sub |-> "none",
     sent |-> NoText, out |-> NoText, cmd |-> NoText, end |-> FALSE,
     variants |-> EmptyDict]

Lookup(c, id) == IF id \in DOMAIN c THEN c[id] ELSE NoEntry

\* main.py:721, the cache-hit test of generate_response
\* (first two faulty variants: never using the cache, ignoring force)
UseCached_Never(force, prompt, id, c) == FALSE
UseCached_IgnoreForce(force, prompt, id, c) == id \in DOMAIN c
UseCached(force, prompt, id, c) == ~force /\ id \in DOMAIN c

\* POST /api/generate-response (main.py:717-753); o is how the backend call
\* ends when the handler makes one
GenerateResponse(id, force, prompt) ==
    LET req == [NoRequest EXCEPT !.op = "generate", !.id = id, !.force = force,
                                 !.prompt = prompt, !.had = Lookup(cache, id)]
    IN  IF UseCached(force, prompt, id, cache)
        THEN /\ last' = [req EXCEPT !.status = 200, !.text = cache[id]]
             /\ UNCHANGED cacheVars
        ELSE \E o \in BackendOutcomes :
             LET response_text == generate_ai_response(o)
             IN  IF IsCacheable(response_text)
                 THEN /\ cache' = Put(cache, id, response_text)
                      /\ store' = SaveCache(cache')
                      /\ last' = IF writable
                                 THEN [req EXCEPT !.status = 200, !.gen = 1,
                                                  !.out = response_text,
                                                  !.text = response_text]
                                 ELSE [req EXCEPT !.status = 500, !.gen = 1,
                                                  !.out = response_text]
                 ELSE /\ last' = [req EXCEPT !.status = 200, !.gen = 1,
                                             !.out = response_text,
                                             !.text = response_text]
                      /\ UNCHANGED cacheVars

\* the request bodies of POST /api/reply: text and answer are optional
ReplyTexts == {NoText, "Spasibo za otzyv!"}
\* answer: absent (or an empty dict), a dict without a usable text, a dict with one
Answers == {[given |-> FALSE, text |-> NoText], [given |-> TRUE, text |-> NoText],
            [given |-> TRUE, text |-> "Otvet na vopros"]}

\* main.py:780-785: the text handed to the submitter (the state field of
\* the request is passed through to the marketplace and is left out)
\* (first a faulty variant that takes the answer's text for any item type)
ResolveText_AnswerForAnyType(type, text, answer) ==
    IF answer.given /\ answer.text # NoText THEN answer.text ELSE text
ResolveText(type, text, answer) ==
    IF type = "questions" /\ answer.given /\ answer.text # NoText THEN answer.text ELSE text

\* main.py:799-803: the cache after the submitter has answered
\* (first two faulty variants: never deleting, deleting whatever the answer)
CacheAfterReply_KeepEntry(c, id, outcome) == c
CacheAfterReply_AlwaysDelete(c, id, outcome) == Del(c, id)
CacheAfterReply(c, id, outcome) ==
    IF outcome = "ok" /\ id \in DOMAIN c THEN Del(c, id) ELSE c

\* POST /api/reply (main.py:773-810); net is the network's answer when the
\* submitter gets to ask it
SendReply(id, type, text, answer) ==
    LET reply_text == ResolveText(type, text, answer)
        req == [NoRequest EXCEPT !.op = "reply", !.id = id, !.type = type,
                                 !.had = Lookup(cache, id)]
    IN  IF reply_text = NoText
        THEN /\ last' = [req EXCEPT !.status = 400]
             /\ UNCHANGED <<cache, store, unanswered>>
        ELSE \E net \in NetAnswers(type) :
             LET outcome == reply_to_item(type, net)
             IN
             /\ cache' = CacheAfterReply(cache, id, outcome)
             /\ store' = IF cache' # cache THEN SaveCache(cache') ELSE store
             /\ unanswered' = IF outcome = "ok" /\ type = "feedbacks"
                              THEN MarkAnswered(unanswered, id) ELSE unanswered
             /\ last' = [req EXCEPT !.sub = outcome, !.sent = reply_text,
                                    !.status = IF outcome = "ok" /\ (cache' = cache \/ writable)
                                               THEN 200 ELSE 500]

(***************************************************************************)
(* The variants of a draft: ai_responder.generate_multiple_ai_responses,   *)
(* POST /api/generate-multiple-responses and                               *)
(* POST /api/cache-selected-response.  last.variants is the mapping the    *)
(* request was answered with, from label to text.                          *)
(***************************************************************************)
\* ai_responder.py:280: "Не удалось сгенерировать этот вариант. Попробуйте снова."
ErrVariant == "Ne udalos sgenerirovat etot variant. Poprobuyte snova."

\* generate_multiple_ai_responses with the profile the endpoint uses, the
\* default "gemini" (ai_responder.py:266-282): outs[k] is how the k-th call
\* of the backend ends; any exception of a call fills its slot
\* (first a faulty variant that leaves out the slot of a failed call)
generate_multiple_ai_responses_SkipFailed(outs) ==
    LET labels == <<"gemini", "gemini_v2", "gemini_v3">>
        slot(d, k) == IF outs[k].kind = "text"
                      THEN Put(d, labels[k], NormalizeText(outs[k].text)) ELSE d
    IN  slot(slot(slot(EmptyDict, 1), 2), 3)
generate_multiple_ai_responses(outs) ==
    LET labels == <<"gemini", "gemini_v2", "gemini_v3">>
        variant(o) == IF o.kind = "text" THEN NormalizeText(o.text) ELSE ErrVariant
        slot(d, k) == Put(d, labels[k], variant(outs[k]))
    IN  slot(slot(slot(EmptyDict, 1), 2), 3)

\* how a call of the backend ends on this path: with a draft or with an
\* exception (the kinds of exception and the texts that are no draft are
\* told apart by generate_ai_response only, which this path does not call)
VariantOutcomes ==
    {o \in BackendOutcomes :
        \/ o.kind = "RequestException"
        \/ o.kind = "text" /\ IsCacheable(NormalizeText(o.text))}

\* POST /api/generate-multiple-responses (main.py:685-715)
\* (first a faulty variant that stores the first variant when it is a draft)
GenerateMultipleResponses_CachesFirst(id, force, prompt) ==
    LET req == [NoRequest EXCEPT !.op = "multi", !.id = id, !.force = force,
                                 !.prompt = prompt, !.had = Lookup(cache, id),
                                 !.status = 200]
    IN  /\ IF ~force /\ prompt = NoText /\ id \in DOMAIN cache
           THEN /\ last' = [req EXCEPT !.variants =
                               [l \in {"gpt", "gpt_v2", "gpt_v3"} |-> cache[id]]]
                /\ UNCHANGED <<cache, store>>
           ELSE \E outs \in [1 .. 3 -> VariantOutcomes] :
                   LET responses == generate_multiple_ai_responses(outs)
                   IN  /\ last' = [req EXCEPT !.gen = 3, !.variants = responses]
                       /\ cache' = IF IsCacheable(responses["gemini"])
                                   THEN Put(cache, id, responses["gemini"]) ELSE cache
                       /\ store' = SaveCache(cache')
        /\ UNCHANGED unanswered
\* (and one that tests the cache as generate_response does, without the prompt)
GenerateMultipleResponses_IgnorePrompt(id, force, prompt) ==
    LET req == [NoRequest EXCEPT !.op = "multi", !.id = id, !.force = force,
                                 !.prompt = prompt, !.had = Lookup(cache, id),
                                 !.status = 200]
    IN  /\ IF ~force /\ id \in DOMAIN cache
           THEN last' = [req EXCEPT !.variants =
                            [l \in {"gpt", "gpt_v2", "gpt_v3"} |-> cache[id]]]
           ELSE \E outs \in [1 .. 3 -> VariantOutcomes] :
                   last' = [req EXCEPT !.gen = 3,
                                       !.variants = generate_multiple_ai_responses(outs)]
        /\ UNCHANGED <<cache, store, unanswered>>
GenerateMultipleResponses(id, force, prompt) ==
    LET req == [NoRequest EXCEPT !.op = "multi", !.id = id, !.force = force,
                                 !.prompt = prompt, !.had = Lookup(cache, id),
                                 !.status = 200]
    IN  /\ IF ~force /\ prompt = NoText /\ id \in DOMAIN cache
           THEN last' = [req EXCEPT !.variants =
                            [l \in {"gpt", "gpt_v2", "gpt_v3"} |-> cache[id]]]
           ELSE \E outs \in [1 .. 3 -> VariantOutcomes] :
                   last' = [req EXCEPT !.gen = 3,
                                       !.variants = generate_multiple_ai_responses(outs)]
        /\ UNCHANGED <<cache, store, unanswered>>

\* POST /api/cache-selected-response (main.py:755-771); id 0 stands for a
\* body whose id is missing or empty, response NoText for one whose response
\* is missing or empty
\* (first a faulty variant that keeps an entry the item already has)
CacheSelectedResponse_InsertOnly(id, response) ==
    LET req == [NoRequest EXCEPT !.op = "select", !.id = id, !.out = response,
                                 !.had = Lookup(cache, id)]
    IN  IF id = 0 \/ response = NoText
        THEN /\ last' = [req EXCEPT !.status = 400]
             /\ UNCHANGED <<cache, store, unanswered>>
        ELSE /\ cache' = IF id \in DOMAIN cache THEN cache ELSE Put(cache, id, response)
             /\ store' = SaveCache(cache')
             /\ last' = [req EXCEPT !.status = IF writable THEN 200 ELSE 500]
             /\ UNCHANGED unanswered
CacheSelectedResponse(id, response) ==
    LET req == [NoRequest EXCEPT !.op = "select", !.id = id, !.out = response,
                                 !.had = Lookup(cache, id)]
    IN  IF id = 0 \/ response = NoText
        THEN /\ last' = [req EXCEPT !.status = 400]
             /\ UNCHANGED <<cache, store, unanswered>>
        ELSE /\ cache' = Put(cache, id, response)
             /\ store' = SaveCache(cache')
             /\ last' = [req EXCEPT !.status = IF writable THEN 200 ELSE 500]
             /\ UNCHANGED unanswered

(***************************************************************************)
(* The bulk auto-reply run, _run_auto_reply_5_stars_feedbacks_sync         *)
(* (main.py:143-245).  run[j] holds the locals of run j: run 0 is the call *)
(* made by POST /api/auto-reply-5-stars-feedbacks, which occupies the      *)
(* event loop until it returns.  `calls` is the log of the run's           *)
(* reply_to_item calls: item id, clock at the call, and its answer;        *)
(* `gens` the log of its phase-1 turns: item id, the item's cache entry    *)
(* when the turn began, and how the backend call ended if one was made;    *)
(* `fetch` how the fetch of the unanswered list ended.                     *)
(***************************************************************************)
Runs == 0 .. MaxJobs
Ratings == {4, FiveStars}

NoResult == [status |-> "none", total_feedbacks |-> 0, generated |-> 0, cached |-> 0,
             replied_5_stars |-> 0, errors |-> EmptyDict]

\* job_results before any job has started
EmptyJobs == <<>>

IdleRun ==
    [pc |-> "idle", feedbacks |-> <<>>, i |-> 0,
     generated_count |-> 0, cached_count |-> 0, replied_count |-> 0,
     errors |-> EmptyDict,
     sent_in_current_second |-> 0, second_window_start |-> 0,
     calls |-> <<>>, result |-> NoResult, fetch |-> "none", gens |-> <<>>,
     reply_text |-> NoText]

\* wb_api.get_unanswered_feedbacks (wb_api.py:110-149): raises without an API
\* key, returns [] on a RequestException, else the marketplace's list
get_unanswered_feedbacks(net) ==
    IF ~wbKey THEN [raised |-> TRUE, items |-> <<>>]
    ELSE [raised |-> FALSE, items |-> IF net THEN unanswered ELSE <<>>]

\* how that call ended: the ValueError of get_wb_api_headers, a
\* RequestException caught inside, or a list from the marketplace
FetchEnding(net) == IF ~wbKey THEN "raised" ELSE IF net THEN "ok" ELSE "failed"

\* main.py:237-245 and 153-161: the summary a run returns
\* (first a faulty variant that reports the items left unsent as the total)
Summary_TotalLeft(r) ==
    [status |-> "ok", total_feedbacks |-> Len(r.feedbacks) - r.replied_count,
     generated |-> r.generated_count, cached |-> r.cached_count,
     replied_5_stars |-> r.replied_count, errors |-> r.errors]
Summary(r) ==
    [status |-> "ok", total_feedbacks |-> Len(r.feedbacks),
     generated |-> r.generated_count, cached |-> r.cached_count,
     replied_5_stars |-> r.replied_count, errors |-> r.errors]

\* main.py:151-166: the fetch and the early return on an empty list
BulkStart(j, net) ==
    /\ run[j].pc = "idle"
    /\ LET got == get_unanswered_feedbacks(net)
           r == [IdleRun EXCEPT !.feedbacks = got.items, !.fetch = FetchEnding(net)]
       IN  run' = [run EXCEPT ![j] =
                IF got.raised THEN [r EXCEPT !.pc = "failed"]
                ELSE IF got.items = <<>>
                     THEN [r EXCEPT !.pc = "done", !.result = Summary(r)]
                     ELSE [r EXCEPT !.pc = "phase1", !.i = 1]]
    /\ UNCHANGED <<cache, store, unanswered, writable, wbKey, netLatency, now, last, bootVars, voiceVars>>

\* main.py:171-192: the body of the generation loop for item fb
Phase1Body(r, c, fb, o) ==
    IF fb.id \in DOMAIN c
    THEN [r |-> [r EXCEPT !.cached_count = @ + 1,
                          !.gens = Append(@, [id |-> fb.id, had |-> c[fb.id],
                                              kind |-> "none", out |-> NoText])],
          cache |-> c]
    ELSE LET response_text == generate_ai_response(o)
             r1 == [r EXCEPT !.gens = Append(@, [id |-> fb.id, had |-> NoEntry,
                                                 kind |-> o.kind, out |-> response_text])]
         IN  IF IsCacheable(response_text)
             THEN [r |-> [r1 EXCEPT !.generated_count = @ + 1],
                   cache |-> Put(c, fb.id, response_text)]
             ELSE [r |-> [r1 EXCEPT !.errors =
                            Put(@, fb.id, IF response_text # NoText
                                          THEN response_text ELSE ErrEmptyAi)],
                   cache |-> c]

Phase1Step(j, o) ==
    /\ run[j].pc = "phase1"
    /\ run[j].i <= Len(run[j].feedbacks)
    /\ LET b == Phase1Body(run[j], cache, run[j].feedbacks[run[j].i], o)
       IN  /\ run' = [run EXCEPT ![j] = [b.r EXCEPT !.i = @ + 1]]
           /\ cache' = b.cache
    /\ UNCHANGED <<store, unanswered, writable, wbKey, netLatency, now, last, bootVars, voiceVars>>

\* main.py:194-199: one save_cache after the loop, then the window starts
\* (first two faulty variants: one that starts to submit once the first item
\* is through, one that leaves the loop without the save)
Phase1End_AfterFirstItem(j) ==
    /\ run[j].pc = "phase1"
    /\ run[j].i > 1
    /\ store' = SaveCache(cache)
    /\ run' = [run EXCEPT ![j] =
                 IF writable
                 THEN [run[j] EXCEPT !.pc = "phase2", !.i = 1,
                                !.sent_in_current_second = 0,
                                !.second_window_start = now]
                 ELSE [run[j] EXCEPT !.pc = "failed"]]
    /\ UNCHANGED <<cache, unanswered, writable, wbKey, netLatency, now, last, bootVars, voiceVars>>
Phase1End_WithoutSave(j) ==
    /\ run[j].pc = "phase1"
    /\ run[j].i > Len(run[j].feedbacks)
    /\ store' = store
    /\ run' = [run EXCEPT ![j] =
                 [run[j] EXCEPT !.pc = "phase2", !.i = 1,
                                !.sent_in_current_second = 0,
                                !.second_window_start = now]]
    /\ UNCHANGED <<cache, unanswered, writable, wbKey, netLatency, now, last, bootVars, voiceVars>>
Phase1End(j) ==
    /\ run[j].pc = "phase1"
    /\ run[j].i > Len(run[j].feedbacks)
    /\ store' = SaveCache(cache)
    /\ run' = [run EXCEPT ![j] =
                 IF writable
                 THEN [run[j] EXCEPT !.pc = "phase2", !.i = 1,
                                !.sent_in_current_second = 0,
                                !.second_window_start = now]
                 ELSE [run[j] EXCEPT !.pc = "failed"]]
    /\ UNCHANGED <<cache, unanswered, writable, wbKey, netLatency, now, last, bootVars, voiceVars>>

\* main.py:210-220: the windowed counter at clock t; callAt is the clock
\* when the submitter is called (after the sleep, if one is taken)
Throttle(r, t) ==
    LET reset == t - r.second_window_start >= TicksPerSecond
        start1 == IF reset THEN t ELSE r.second_window_start
        sent1 == IF reset THEN 0 ELSE r.sent_in_current_second
        sleep_time == TicksPerSecond - (t - start1)
        woke == IF sleep_time > 0 THEN t + sleep_time ELSE t
    IN  IF sent1 >= RateLimit
        THEN [start |-> woke, sent |-> 0, callAt |-> woke]
        ELSE [start |-> start1, sent |-> sent1, callAt |-> t]

\* main.py:228-235: the bookkeeping after the submitter has answered
\* (first two faulty variants: one that leaves the loop at the first failed
\* item, one that gives a failed item a second turn)
AfterSubmit_StopOnFailure(r, id, outcome) ==
    IF outcome = "ok"
    THEN [r EXCEPT !.replied_count = @ + 1, !.sent_in_current_second = @ + 1, !.i = @ + 1]
    ELSE [r EXCEPT !.errors = Put(@, id, ErrSendWb), !.i = Len(r.feedbacks) + 1]
AfterSubmit_RetryFailed(r, id, outcome) ==
    IF outcome = "ok"
    THEN [r EXCEPT !.replied_count = @ + 1, !.sent_in_current_second = @ + 1, !.i = @ + 1]
    ELSE [r EXCEPT !.errors = Put(@, id, ErrSendWb),
                   !.i = IF id \in DOMAIN r.errors THEN @ + 1 ELSE @]
AfterSubmit(r, id, outcome) ==
    IF outcome = "ok"
    THEN [r EXCEPT !.replied_count = @ + 1, !.sent_in_current_second = @ + 1, !.i = @ + 1]
    ELSE [r EXCEPT !.errors = Put(@, id, ErrSendWb), !.i = @ + 1]

\* main.py:231-233: a sent item leaves the cache
\* (first a faulty variant that keeps it)
BulkCacheAfterSubmit_KeepEntry(c, id, outcome) == c
BulkCacheAfterSubmit(c, id, outcome) ==
    IF outcome = "ok" /\ id \in DOMAIN c THEN Del(c, id) ELSE c

\* main.py:201-235: one turn of the submission loop; net is the network's
\* answer and d the duration of the call, if one is made
\* (first a faulty variant that submits whatever the rating)
Phase2Step_AnyRating(j, net, d) ==
    /\ run[j].pc = "phase2"
    /\ run[j].i <= Len(run[j].feedbacks)
    /\ LET r == run[j]
           fb == r.feedbacks[r.i]
           reply_text == Lookup(cache, fb.id)
       IN  IF reply_text \in {NoEntry, NoText}
           THEN /\ run' = [run EXCEPT ![j].i = @ + 1]
                /\ UNCHANGED <<cache, store, unanswered, now>>
           ELSE LET th == Throttle(r, now)
                    outcome == reply_to_item("feedbacks", net)
                    r1 == [r EXCEPT !.second_window_start = th.start,
                                    !.sent_in_current_second = th.sent,
                                    !.calls = Append(@, [id |-> fb.id, at |-> th.callAt,
                                                         outcome |-> outcome,
                                                         text |-> reply_text])]
                IN  /\ cache' = BulkCacheAfterSubmit(cache, fb.id, outcome)
                    /\ store' = IF cache' # cache THEN SaveCache(cache') ELSE store
                    /\ unanswered' = IF outcome = "ok"
                                     THEN MarkAnswered(unanswered, fb.id) ELSE unanswered
                    /\ now' = th.callAt + d
                    /\ run' = [run EXCEPT ![j] =
                                 IF outcome = "raise" \/ (cache' # cache /\ ~writable)
                                 THEN [r1 EXCEPT !.pc = "failed"]
                                 ELSE AfterSubmit(r1, fb.id, outcome)]
    /\ UNCHANGED <<writable, wbKey, netLatency, last, bootVars, voiceVars>>
Phase2Step(j, net, d) ==
    /\ run[j].pc = "phase2"
    /\ run[j].i <= Len(run[j].feedbacks)
    /\ LET r == run[j]
           fb == r.feedbacks[r.i]
           reply_text == Lookup(cache, fb.id)
       IN  IF fb.rating # FiveStars \/ reply_text \in {NoEntry, NoText}
           THEN /\ run' = [run EXCEPT ![j].i = @ + 1]
                /\ UNCHANGED <<cache, store, unanswered, now>>
           ELSE LET th == Throttle(r, now)
                    outcome == reply_to_item("feedbacks", net)
                    r1 == [r EXCEPT !.second_window_start = th.start,
                                    !.sent_in_current_second = th.sent,
                                    !.calls = Append(@, [id |-> fb.id, at |-> th.callAt,
                                                         outcome |-> outcome,
                                                         text |-> reply_text])]
                IN  /\ cache' = BulkCacheAfterSubmit(cache, fb.id, outcome)
                    /\ store' = IF cache' # cache THEN SaveCache(cache') ELSE store
                    /\ unanswered' = IF outcome = "ok"
                                     THEN MarkAnswered(unanswered, fb.id) ELSE unanswered
                    /\ now' = th.callAt + d
                    /\ run' = [run EXCEPT ![j] =
                                 IF outcome = "raise" \/ (cache' # cache /\ ~writable)
                                 THEN [r1 EXCEPT !.pc = "failed"]
                                 ELSE AfterSubmit(r1, fb.id, outcome)]
    /\ UNCHANGED <<writable, wbKey, netLatency, last, bootVars, voiceVars>>

\* main.py:237-245: the loop is over and the summary is returned
BulkReturn(j) ==
    /\ run[j].pc = "phase2"
    /\ run[j].i > Len(run[j].feedbacks)
    /\ run' = [run EXCEPT ![j] = [run[j] EXCEPT !.pc = "done", !.result = Summary(run[j])]]
    /\ UNCHANGED <<cache, store, unanswered, writable, wbKey, netLatency, now, last, bootVars, voiceVars>>

(***************************************************************************)
(* Process start: load_cache (main.py:34-67) and startup_event             *)
(* (main.py:283-310).  `file` is what the path CACHE_FILE holds: nothing,  *)
(* a directory, a file without content, a file json.loads rejects, or a    *)
(* file with a JSON value.  A JSON object of key -> text is the kind       *)
(* "mapping", and `store` is that object; a JSON array keeps its elements  *)
(* in arr; "scalar" is a number, true/false or null.                       *)
(***************************************************************************)
FileOf(kind, arr) == [kind |-> kind, arr |-> arr]
\* the file save_cache writes: json.dump of the dict (main.py:71-72)
MappingFile == FileOf("mapping", <<>>)

\* the elements a stored JSON array may hold: a two-element array
\* ["<id>", "<text>"], or a number
PairElem(k, v) == [t |-> "pair", k |-> k, v |-> v]
NumberElem == [t |-> "number", k |-> 0, v |-> NoText]

\* dict.update(iterable), as load_cache calls it at main.py:55 on whatever
\* json.loads returned: every element must be a sequence of length 2 and is
\* stored as key -> value in turn; the first element that is not raises, and
\* the entries stored before it stay
RECURSIVE UpdateFromArray(_, _)
UpdateFromArray(d, arr) ==
    IF arr = <<>> THEN [dict |-> d, raised |-> FALSE]
    ELSE IF Head(arr).t = "pair"
         THEN UpdateFromArray(Put(d, Head(arr).k, Head(arr).v), Tail(arr))
         ELSE [dict |-> d, raised |-> TRUE]

\* load_cache: the dict it leaves in response_cache, whether it raised, and
\* whether it wrote the file anew (an empty mapping)
load_cache ==
    CASE file.kind \in {"missing", "directory"} ->
            [dict |-> EmptyDict, raised |-> ~writable, wrote |-> writable]
      [] file.kind = "mapping" ->
            [dict |-> store, raised |-> FALSE, wrote |-> FALSE]
      [] file.kind = "array" ->
            [dict |-> UpdateFromArray(EmptyDict, file.arr).dict, raised |-> FALSE,
             wrote |-> FALSE]
      [] OTHER ->  \* "empty", "corrupt", "scalar": nothing is loaded
            [dict |-> EmptyDict, raised |-> FALSE, wrote |-> FALSE]

\* wb_api.get_unanswered_questions (wb_api.py:151-176): the ids of the
\* marketplace's unanswered questions qs; raises without an API key, returns
\* [] on a RequestException
get_unanswered_questions(net, qs) ==
    IF ~wbKey THEN [raised |-> TRUE, ids |-> {}]
    ELSE [raised |-> FALSE, ids |-> IF net THEN qs ELSE {}]

\* main.py:297: the entries whose id is active
\* (first a faulty variant that keeps the entries whose id is not)
Prune_KeepStale(c, active_ids) == [k \in DOMAIN c \ active_ids |-> c[k]]
Prune(c, active_ids) == [k \in DOMAIN c \cap active_ids |-> c[k]]

BootOff ==
    [pc |-> "off", loaded |-> EmptyDict, fetched |-> FALSE, active |-> {}, saves |-> 0]
\* the startup handler of a process that is serving already
BootUp == [BootOff EXCEPT !.pc = "up"]

\* startup_event (main.py:283-310), run once before the first request:
\* load_cache, then the fetch of both unanswered lists and the pruning, all
\* inside one try whose except only prints.  fnet and qnet are the network's
\* answers to the two fetches, qs the unanswered questions' ids.
\* (first a faulty variant that writes the store once for every entry it removes)
StartupEvent_SavePerRemoval(fnet, qnet, qs) ==
    /\ boot.pc = "off"
    /\ LET ld == load_cache
           fb == get_unanswered_feedbacks(fnet)
           qu == get_unanswered_questions(qnet, qs)
           fetched == ~fb.raised /\ ~qu.raised
           active_ids == {fb.items[k].id : k \in DOMAIN fb.items} \cup qu.ids
           pruned_cache == Prune(ld.dict, active_ids)
           prunes == fetched /\ Cardinality(DOMAIN pruned_cache) < Cardinality(DOMAIN ld.dict)
       IN  IF ld.raised
           THEN /\ boot' = [boot EXCEPT !.pc = "crashed"]
                /\ UNCHANGED <<cache, store, file>>
           ELSE /\ cache' = IF prunes THEN pruned_cache ELSE ld.dict
                /\ store' = IF prunes THEN SaveCache(pruned_cache)
                            ELSE IF ld.wrote THEN EmptyDict ELSE store
                /\ file' = IF ld.wrote \/ (prunes /\ writable) THEN MappingFile ELSE file
                /\ boot' = [pc |-> "up", loaded |-> ld.dict, fetched |-> fetched,
                            active |-> IF fetched THEN active_ids ELSE {},
                            saves |-> IF prunes
                                      THEN Cardinality(DOMAIN ld.dict \ DOMAIN pruned_cache)
                                      ELSE 0]
    /\ UNCHANGED <<unanswered, writable, wbKey, netLatency, now, last, run, voiceVars>>
StartupEvent(fnet, qnet, qs) ==
    /\ boot.pc = "off"
    /\ LET ld == load_cache
           fb == get_unanswered_feedbacks(fnet)
           qu == get_unanswered_questions(qnet, qs)
           fetched == ~fb.raised /\ ~qu.raised
           active_ids == {fb.items[k].id : k \in DOMAIN fb.items} \cup qu.ids
           pruned_cache == Prune(ld.dict, active_ids)
           prunes == fetched /\ Cardinality(DOMAIN pruned_cache) < Cardinality(DOMAIN ld.dict)
       IN  IF ld.raised
           THEN /\ boot' = [boot EXCEPT !.pc = "crashed"]
                /\ UNCHANGED <<cache, store, file>>
           ELSE /\ cache' = IF prunes THEN pruned_cache ELSE ld.dict
                /\ store' = IF prunes THEN SaveCache(pruned_cache)
                            ELSE IF ld.wrote THEN EmptyDict ELSE store
                /\ file' = IF ld.wrote \/ (prunes /\ writable) THEN MappingFile ELSE file
                /\ boot' = [pc |-> "up", loaded |-> ld.dict, fetched |-> fetched,
                            active |-> IF fetched THEN active_ids ELSE {},
                            saves |-> IF prunes THEN 1 ELSE 0]
    /\ UNCHANGED <<unanswered, writable, wbKey, netLatency, now, last, run, voiceVars>>

(***************************************************************************)
(* Text helpers of the voice webhook: str.lower, the `in` test on strings, *)
(* char.isdigit and re.findall(r'\b(\d+)\b', ...).  Russian words are      *)
(* written in Latin letters, one word character for one word character.    *)
(***************************************************************************)
Digits == {"0", "1", "2", "3", "4", "5", "6", "7", "8", "9"}
UpperCase == <<"A", "B", "C", "D", "E", "F", "G", "H", "I", "J", "K", "L", "M",
               "N", "O", "P", "Q", "R", "S", "T", "U", "V", "W", "X", "Y", "Z">>
LowerCase == <<"a", "b", "c", "d", "e", "f", "g", "h", "i", "j", "k", "l", "m",
               "n", "o", "p", "q", "r", "s", "t", "u", "v", "w", "x", "y", "z">>

CharAt(s, i) == SubSeq(s, i, i)

\* str.lower on one character
LowerChar(c) ==
    IF \E n \in DOMAIN UpperCase : UpperCase[n] = c
    THEN LowerCase[CHOOSE n \in DOMAIN UpperCase : UpperCase[n] = c]
    ELSE c

RECURSIVE Lower(_)
Lower(s) == IF s = "" THEN "" ELSE LowerChar(CharAt(s, 1)) \o Lower(SubSeq(s, 2, Len(s)))

\* w in s
Contains(s, w) ==
    \E i \in 1 .. (Len(s) - Len(w) + 1) : SubSeq(s, i, i + Len(w) - 1) = w

\* any(char.isdigit() for char in s)
HasDigit(s) == \E i \in 1 .. Len(s) : CharAt(s, i) \in Digits

\* \w of the regular expressions: letters, digits and the underscore
IsWordChar(c) ==
    \/ c \in Digits
    \/ c = "_"
    \/ \E n \in DOMAIN LowerCase : LowerCase[n] = c \/ UpperCase[n] = c

\* the end of the run of digits that starts at position i
RECURSIVE DigitRunEnd(_, _)
DigitRunEnd(s, i) ==
    IF i < Len(s) /\ CharAt(s, i + 1) \in Digits THEN DigitRunEnd(s, i + 1) ELSE i

\* re.findall(r'\b(\d+)\b', s) from position i on: the runs of digits that
\* have no word character next to them, as strings, in order
RECURSIVE FindNumbers(_, _)
FindNumbers(s, i) ==
    IF i > Len(s) THEN <<>>
    ELSE IF CharAt(s, i) \notin Digits THEN FindNumbers(s, i + 1)
    ELSE LET e == DigitRunEnd(s, i)
             bounded == /\ (i = 1 \/ ~IsWordChar(CharAt(s, i - 1)))
                        /\ (e = Len(s) \/ ~IsWordChar(CharAt(s, e + 1)))
         IN  IF bounded THEN <<SubSeq(s, i, e)>> \o FindNumbers(s, e + 1)
             ELSE FindNumbers(s, e + 1)

\* int(m) of a string of digits
RECURSIVE ToInt(_)
ToInt(m) ==
    LET value(c) == CHOOSE n \in 0 .. 9 : ToString(n) = c
    IN  IF m = "" THEN 0
        ELSE 10 * ToInt(SubSeq(m, 1, Len(m) - 1)) + value(CharAt(m, Len(m)))

\* ', '.join(parts)
RECURSIVE Join(_)
Join(parts) ==
    IF parts = <<>> THEN ""
    ELSE IF Len(parts) = 1 THEN parts[1]
    ELSE parts[1] \o ", " \o Join(Tail(parts))

(***************************************************************************)
(* The voice webhook, alice_webhook (main.py:337-683): the texts.          *)
(***************************************************************************)
\* the fixed texts of the responses.  help is _help_text (main.py:126-140),
\* its first and last sentence; greeting main.py:373, 387; parse_error
\* main.py:380, 383; format_error main.py:392; exit main.py:419;
\* nothing_to_reply main.py:429; no_numbers main.py:439; no_completed_job
\* main.py:592; all_clean main.py:599; no_questions main.py:612; no_stats
\* main.py:619; no_feedbacks main.py:631; nothing_to_read main.py:655;
\* not_understood main.py:680
Txt ==
    LET help == "Privet! Ya pomogu tebe upravlyat otzyvami na Wildberries. Chto khochesh sdelat?"
    IN  [help |-> help,
         greeting |-> "Privet! " \o help,
         \* "Ошибка обработки запроса. Попробуйте ещё раз."
         parse_error |-> "Oshibka obrabotki zaprosa. Poprobuyte eshchyo raz.",
         \* "Ошибка формата запроса. Попробуйте ещё раз."
         format_error |-> "Oshibka formata zaprosa. Poprobuyte eshchyo raz.",
         \* "Хорошо, выхожу."
         exit |-> "Khorosho, vykhozhu.",
         \* "Нет неотвеченных отзывов для ответа."
         nothing_to_reply |-> "Net neotvechennykh otzyvov dlya otveta.",
         \* "Не указаны номера отзывов. ..."
         no_numbers |-> "Ne ukazany nomera otzyvov. Skazhi, naprimer: 'otvet na otzyv 1' ili 'otvet na otzyvy 1 i 2'.",
         \* "Нет завершённых задач. ..."
         no_completed_job |-> "Net zavershyonnykh zadach. Ukazhite nomer zadachi ili zapustite obrabotku.",
         \* "Сейчас нет неотвеченных отзывов. Всё чисто!"
         all_clean |-> "Seychas net neotvechennykh otzyvov. Vsyo chisto!",
         \* "Нет неотвеченных вопросов. Всё отлично!"
         no_questions |-> "Net neotvechennykh voprosov. Vsyo otlichno!",
         no_stats |-> "Seychas net neotvechennykh otzyvov, poetomu statistiku poschitat nelzya.",
         \* "Нет неотвеченных отзывов."
         no_feedbacks |-> "Net neotvechennykh otzyvov.",
         \* "Нет неотвеченных отзывов для чтения."
         nothing_to_read |-> "Net neotvechennykh otzyvov dlya chteniya.",
         \* "Извини, не поняла. " + _help_text()
         not_understood |-> "Izvini, ne ponyala. " \o help]

\* main.py:444: "Номера должны быть от 1 до {n}."
TxtRange(n) == "Nomera dolzhny byt ot 1 do " \o ToString(n) \o "."
\* main.py:471, 476, 493: "отзыв {num}"
ErrItem(num) == "otzyv " \o ToString(num)
\* main.py:515-516: "Хорошо, начинаю обработку отзывов. Это задача номер {id}. ..."
TxtJobStarted(id) ==
    "Khorosho, nachinayu obrabotku otzyvov. Eto zadacha nomer " \o id
        \o ". Kogda zakonchu, sprosi menya: 'status zadachi " \o id \o "' - i ya rasskazhu rezultat."
\* main.py:531: "Задача {id} ещё выполняется. Подождите немного."
TxtJobRunning(id) == "Zadacha " \o id \o " eshchyo vypolnyaetsya. Podozhdite nemnogo."
\* main.py:555: "Задача {id} завершилась с ошибкой."
TxtJobFailed(id) == "Zadacha " \o id \o " zavershilas s oshibkoy."
\* main.py:557: "Задача {id} не найдена."
TxtJobNotFound(id) == "Zadacha " \o id \o " ne naydena."
\* main.py:613: "У тебя {count} неотвеченных вопросов."
TxtQuestions(count) == "U tebya " \o ToString(count) \o " neotvechennykh voprosov."

\* main.py:642-645: one part of the list of ratings
RatingPart(count, rating) ==
    IF count = 1
    THEN (IF rating < FiveStars THEN "1 otzyv - " \o ToString(rating) \o " zvezdy"
          ELSE "1 otzyv - 5 zvyozd")
    ELSE (IF rating < FiveStars
          THEN ToString(count) \o " otzyva - " \o ToString(rating) \o " zvezdy"
          ELSE ToString(count) \o " otzyvov - 5 zvyozd")

CountRated(list, rating) == Cardinality({k \in DOMAIN list : list[k].rating = rating})

\* main.py:634-641: the parts for the ratings rs, highest first
RECURSIVE RatingParts(_, _)
RatingParts(list, rs) ==
    IF rs = {} THEN <<>>
    ELSE LET top == CHOOSE r \in rs : \A q \in rs : q <= r
         IN  <<RatingPart(CountRated(list, top), top)>> \o RatingParts(list, rs \ {top})

\* main.py:647
TxtRemaining(list) ==
    "Ostalos " \o ToString(Len(list)) \o " otzyvov: "
        \o Join(RatingParts(list, {list[k].rating : k \in DOMAIN list})) \o "."

\* main.py:657-675: the reading of the list (number and rating of each item;
\* product name, pluses, minuses and comment are not part of the model's items)
RECURSIVE ReadOut(_, _)
ReadOut(list, idx) ==
    IF idx > Len(list) THEN ""
    ELSE (IF idx > 1 THEN " " ELSE "")
            \o "Otzyv " \o ToString(idx) \o ". Otsenka: " \o ToString(list[idx].rating)
            \o (IF list[idx].rating < FiveStars THEN " zvezdy." ELSE " zvyozd.")
            \o ReadOut(list, idx + 1)

(***************************************************************************)
(* The voice webhook: the dispatch.  A request rq is the envelope as the   *)
(* handler sees it: body is "none" (no bytes), "badjson", "falsy" (JSON    *)
(* that is empty or null), "list" (JSON that is not an object) or "dict";  *)
(* type, command and intents are request.type, request.command and the     *)
(* keys of request.nlu.intents.                                            *)
(***************************************************************************)
IdleAlice ==
    [pc |-> "idle", cmd |-> NoText, valid_numbers |-> <<>>, i |-> 0,
     replied_count |-> 0, errors |-> <<>>, calls |-> <<>>]

\* str.strip
Strip(s) == RStrip(LStrip(s))

\* _extract_alice_command_and_intents (main.py:82-115): the command
ExtractCommand(rq) == Lower(Strip(rq.command))

\* _is_exit_command (main.py:118-123); the words are "хватит", "выйти",
\* "выход", "стоп", "закрой", "закрыть", "отмена"
\* (first a faulty variant that looks at the words only)
_is_exit_command_WordsOnly(command, intents) ==
    LET exit_words == {"khvatit", "vyyti", "vykhod", "stop", "zakroy", "zakryt", "otmena"}
    IN  \E w \in exit_words : Contains(command, w)
_is_exit_command(command, intents) ==
    LET exit_words == {"khvatit", "vyyti", "vykhod", "stop", "zakroy", "zakryt", "otmena"}
    IN  "YANDEX.REJECT" \in intents \/ \E w \in exit_words : Contains(command, w)

\* the branch of alice_webhook that serves rq, in the order of the code
Branch(rq) ==
    IF rq.body \in {"none", "falsy"} THEN "greeting"
    ELSE IF rq.body = "badjson" THEN "parse_error"
    ELSE IF rq.body # "dict" THEN "format_error"
    ELSE IF rq.type = "Launch" THEN "launch"
    ELSE LET c == ExtractCommand(rq)
             has(w) == Contains(c, w)
         IN  \* main.py:414
             IF "YANDEX.HELP" \in rq.intents THEN "help"
             \* main.py:418
             ELSE IF _is_exit_command(c, rq.intents) THEN "exit"
             \* main.py:423: "ответь" and "отзыв" and ("все" or a digit)
             ELSE IF has("otvet") /\ has("otzyv") /\ (has("vse") \/ HasDigit(c))
                  THEN "ordinal"
             \* main.py:508: "ответь на отзыв", "ответь на отзывы", "обработай отзывы"
             ELSE IF has("otvet na otzyv") \/ has("otvet na otzyvy") \/ has("obrabotay otzyvy")
                  THEN "job"
             \* main.py:521: "статус задачи", "результат задачи"
             ELSE IF has("status zadachi") \/ has("rezultat zadachi") THEN "status"
             \* main.py:595: "сколько" and "отзыв"
             ELSE IF has("skolko") /\ has("otzyv") THEN "count"
             \* main.py:608: "сколько" and "вопрос"
             ELSE IF has("skolko") /\ has("vopros") THEN "questions"
             \* main.py:615: ("процент" or "%" or "сколько") and
             \* ("5" or "пять" or "пятизв")
             ELSE IF /\ has("protsent") \/ has("%") \/ has("skolko")
                     /\ has("5") \/ has("pyat") \/ has("pyatizv")
                  THEN "five"
             \* main.py:627: ("какие" or "каких") and "отзыв" and ("остал" or "есть")
             ELSE IF /\ has("kakie") \/ has("kakikh")
                     /\ has("otzyv")
                     /\ has("ostal") \/ has("est")
                  THEN "remaining"
             \* main.py:651: "прочитай" and "отзыв"
             ELSE IF has("prochitay") /\ has("otzyv") THEN "read"
             \* main.py:679-683
             ELSE IF c # "" THEN "unknown"
             ELSE "silent"

\* the webhook requests of the voice assistant: the envelopes that carry no
\* command, and the commands
Envelope(body, type, command, intents) ==
    [body |-> body, type |-> type, command |-> command, intents |-> intents]
BareRequests ==
    {Envelope(b, "SimpleUtterance", "", {}) : b \in {"none", "badjson", "falsy", "list"}}
        \cup {Envelope("dict", "Launch", "", {})}
        \cup {Envelope("dict", "SimpleUtterance", "pomoshch", {"YANDEX.HELP"}),
              Envelope("dict", "SimpleUtterance", "net", {"YANDEX.REJECT"})}
Said(command) == Envelope("dict", "SimpleUtterance", command, {})

\* "ответь на отзыв 1", "ответь на отзывы 1 и 2", "ответь на отзывы 1 и 1",
\* "ответь на все отзывы", "ответь на отзыв 9"
OrdinalCommands ==
    {"otvet na otzyv 1", "otvet na otzyvy 1 i 2", "otvet na otzyvy 1 i 1",
     "otvet na vse otzyvy", "otvet na otzyv 9"}
\* "сколько отзывов" (as typed, with capitals and blanks), "сколько вопросов",
\* "сколько пять звёзд", "какие отзывы остались", "прочитай отзывы"
QueryCommands ==
    {" Skolko Otzyvov ", "skolko voprosov", "skolko pyat zvyozd",
     "kakie otzyvy ostalis", "prochitay otzyvy"}
\* "стоп", nothing, "привет"
OtherCommands == {"stop", "", "privet"}
\* "ответь на отзывы", "обработай отзывы"
JobCommands == {"otvet na otzyvy", "obrabotay otzyvy"}
\* "статус задачи 1", "статус задачи 01", "результат задачи"
StatusCommands == {"status zadachi 1", "status zadachi 01", "rezultat zadachi"}

\* every request served in some specification, and what the text helpers
\* give for it: the tables hold Branch, ExtractCommand, FindNumbers and the
\* test for "все" once per request instead of once per step
KnownRequests ==
    BareRequests \cup {Said(c) : c \in OrdinalCommands \cup QueryCommands \cup OtherCommands
                                        \cup JobCommands \cup StatusCommands}
CommandOf == [rq \in KnownRequests |-> ExtractCommand(rq)]
BranchOf == [rq \in KnownRequests |-> Branch(rq)]
KnownCommands == {CommandOf[rq] : rq \in KnownRequests}
NumbersIn == [c \in KnownCommands |-> FindNumbers(c, 1)]
SaysAll == [c \in KnownCommands |-> Contains(c, "vse")]

\* str(job_counter), the key of a job in job_results
JobId(j) == ToString(j)

\* what a branch hands back: the response, or that it raised; the new
\* current_feedbacks_list and job_counter; and, for a reply by ordinals that
\* gets to its loop, the numbers to work through
Answer(text) ==
    [raised |-> FALSE, text |-> text, end |-> FALSE, list |-> current_feedbacks_list,
     counter |-> job_counter, loop |-> FALSE, numbers |-> <<>>]
Raised == [Answer(NoText) EXCEPT !.raised = TRUE]

\* main.py:423-444: the reply by ordinals up to its loop
OrdinalReply(c, fnet) ==
    LET got == get_unanswered_feedbacks(fnet)
        list == IF current_feedbacks_list = <<>> THEN got.items ELSE current_feedbacks_list
        found == NumbersIn[c]
        numbers == IF SaysAll[c] THEN [k \in 1 .. Len(list) |-> k]
                   ELSE [k \in DOMAIN found |-> ToInt(found[k])]
        valid_numbers == SelectSeq(numbers, LAMBDA n : 1 <= n /\ n <= Len(list))
    IN  IF current_feedbacks_list = <<>> /\ got.raised THEN Raised
        ELSE IF list = <<>> THEN Answer(Txt.nothing_to_reply)
        ELSE IF numbers = <<>> THEN [Answer(Txt.no_numbers) EXCEPT !.list = list]
        ELSE IF valid_numbers = <<>> THEN [Answer(TxtRange(Len(list))) EXCEPT !.list = list]
        ELSE [Answer(NoText) EXCEPT !.list = list, !.loop = TRUE, !.numbers = valid_numbers]

\* main.py:532-553 and 572-590: the report on a completed job
CompletedText(id, result) ==
    LET total == result.total_feedbacks
        replied == result.replied_5_stars
    IN  IF total = 0
        THEN "Zadacha " \o id \o " zavershena. Seychas net neotvechennykh otzyvov."
        ELSE IF replied > 0
        THEN "Zadacha " \o id \o " zavershena! Obrabotano otzyvov: " \o ToString(total)
                \o ". Otpravleno otvetov na pyatizvyozdochnye otzyvy: " \o ToString(replied) \o "."
        ELSE "Zadacha " \o id \o " zavershena. Obrabotano otzyvov: " \o ToString(total)
                \o ", no sredi nikh ne bylo pyatizvyozdochnykh, poetomu otvety ne otpravlyalis."
LatestText(id, result) ==
    LET total == result.total_feedbacks
        replied == result.replied_5_stars
    IN  IF total = 0
        THEN "Poslednyaya zadacha " \o id \o " zavershena. Neotvechennykh otzyvov ne bylo."
        ELSE IF replied > 0
        THEN "Poslednyaya zadacha " \o id \o ": obrabotano " \o ToString(total)
                \o " otzyvov, otpravleno otvetov na pyatizvyozdochnye: " \o ToString(replied) \o "."
        ELSE "Poslednyaya zadacha " \o id \o ": obrabotano " \o ToString(total)
                \o " otzyvov, no sredi nikh ne bylo pyatizvyozdochnykh."

\* main.py:521-592: the status of a job
\* (first a faulty variant whose latest job is the latest record of any status)
JobStatus_LatestOfAny(c) ==
    LET found == NumbersIn[c]
    IN  IF found # <<>>
        THEN LET job_id == found[1]
             IN  IF job_id \in DOMAIN job_results
                 THEN CASE job_results[job_id].status = "running" -> TxtJobRunning(job_id)
                        [] job_results[job_id].status = "completed" ->
                              CompletedText(job_id, job_results[job_id].result)
                        [] OTHER -> TxtJobFailed(job_id)
                 ELSE TxtJobNotFound(job_id)
        ELSE LET completed == DOMAIN job_results
             IN  IF completed = {} THEN Txt.no_completed_job
                 ELSE LET jid == CHOOSE x \in completed :
                                    \A y \in completed : ToInt(y) <= ToInt(x)
                      IN  LatestText(jid, job_results[jid].result)
JobStatus(c) ==
    LET found == NumbersIn[c]
    IN  IF found # <<>>
        THEN LET job_id == found[1]
             IN  IF job_id \in DOMAIN job_results
                 THEN CASE job_results[job_id].status = "running" -> TxtJobRunning(job_id)
                        [] job_results[job_id].status = "completed" ->
                              CompletedText(job_id, job_results[job_id].result)
                        [] OTHER -> TxtJobFailed(job_id)
                 ELSE TxtJobNotFound(job_id)
        ELSE LET completed == {jid \in DOMAIN job_results :
                                  job_results[jid].status = "completed"}
             IN  IF completed = {} THEN Txt.no_completed_job
                 ELSE LET jid == CHOOSE x \in completed :
                                    \A y \in completed : ToInt(y) <= ToInt(x)
                      IN  LatestText(jid, job_results[jid].result)

\* main.py:595-624: the statistics on a fetched list
CountText(items) ==
    LET count == Len(items)
        bad_count == Cardinality({k \in DOMAIN items : items[k].rating < FiveStars})
    IN  IF count = 0 THEN Txt.all_clean
        ELSE IF bad_count = 0
        THEN "Vsego otzyvov: " \o ToString(count) \o ", plokhikh otzyvov net."
        ELSE "Vsego otzyvov: " \o ToString(count) \o ", plokhikh otzyvov: "
                \o ToString(bad_count) \o "."
FiveStarText(items) ==
    IF items = <<>> THEN Txt.no_stats
    ELSE "Sredi neotvechennykh otzyvov: " \o ToString(CountRated(items, FiveStars))
            \o " pyatizvyozdochnykh iz " \o ToString(Len(items)) \o "."

\* alice_webhook from the request to the response, the loop of the reply by
\* ordinals apart; fnet and qnet are the network's answers to a fetch the
\* branch makes, qs the ids of the unanswered questions
Handle(rq, fnet, qnet, qs) ==
    LET b == BranchOf[rq]
        c == CommandOf[rq]
        fb == get_unanswered_feedbacks(fnet)
        qu == get_unanswered_questions(qnet, qs)
    IN  CASE b = "greeting" -> Answer(Txt.greeting)
          [] b = "parse_error" -> Answer(Txt.parse_error)
          [] b = "format_error" -> Answer(Txt.format_error)
          [] b \in {"launch", "help", "silent"} -> Answer(Txt.help)
          [] b = "exit" -> [Answer(Txt.exit) EXCEPT !.end = TRUE]
          [] b = "ordinal" -> OrdinalReply(c, fnet)
          [] b = "job" ->
                [Answer(TxtJobStarted(JobId(job_counter + 1))) EXCEPT
                    !.counter = job_counter + 1]
          [] b = "status" -> Answer(JobStatus(c))
          [] b = "count" -> IF fb.raised THEN Raised ELSE Answer(CountText(fb.items))
          [] b = "questions" ->
                IF qu.raised THEN Raised
                ELSE IF qu.ids = {} THEN Answer(Txt.no_questions)
                     ELSE Answer(TxtQuestions(Cardinality(qu.ids)))
          [] b = "five" -> IF fb.raised THEN Raised ELSE Answer(FiveStarText(fb.items))
          [] b = "remaining" ->
                IF fb.raised THEN [Raised EXCEPT !.list = <<>>]
                ELSE IF fb.items = <<>> THEN [Answer(Txt.no_feedbacks) EXCEPT !.list = <<>>]
                     ELSE [Answer(TxtRemaining(fb.items)) EXCEPT !.list = fb.items]
          [] b = "read" ->
                IF fb.raised THEN [Raised EXCEPT !.list = <<>>]
                ELSE IF fb.items = <<>> THEN [Answer(Txt.nothing_to_read) EXCEPT !.list = <<>>]
                     ELSE [Answer(ReadOut(fb.items, 1)) EXCEPT !.list = fb.items]
          [] OTHER -> Answer(Txt.not_understood)

\* the fetches a branch makes: the answers of the network to choose from
FeedbackNets(rq) ==
    IF BranchOf[rq] \in {"count", "five", "remaining", "read"}
          \/ (BranchOf[rq] = "ordinal" /\ current_feedbacks_list = <<>>)
    THEN BOOLEAN ELSE {TRUE}
QuestionNets(rq) == IF BranchOf[rq] = "questions" THEN BOOLEAN ELSE {TRUE}
\* the unanswered questions the marketplace may hold when it is asked
QuestionSets(rq) == IF BranchOf[rq] = "questions" THEN SUBSET Ids ELSE {{}}

AliceLast(rq) == [NoRequest EXCEPT !.op = "alice", !.cmd = CommandOf[rq]]

\* POST /api/alice-webhook: one request, served up to its response or, for
\* a reply by ordinals, up to the loop of main.py:450.  A command that starts
\* a job is taken while job numbers are left.
AliceWebhook(rq) ==
    /\ alice.pc = "idle"
    /\ BranchOf[rq] = "job" => job_counter < MaxJobs
    /\ \E fnet \in FeedbackNets(rq), qnet \in QuestionNets(rq), qs \in QuestionSets(rq) :
          LET h == Handle(rq, fnet, qnet, qs)
          IN  /\ current_feedbacks_list' = h.list
              /\ job_counter' = h.counter
              /\ IF h.loop
                 THEN /\ alice' = [IdleAlice EXCEPT !.pc = "replying",
                                                    !.cmd = CommandOf[rq],
                                                    !.valid_numbers = h.numbers, !.i = 1]
                      /\ last' = last
                 ELSE /\ alice' = alice
                      /\ last' = IF h.raised THEN [AliceLast(rq) EXCEPT !.status = 500]
                                 ELSE [AliceLast(rq) EXCEPT !.status = 200, !.text = h.text,
                                                            !.end = h.end]
    /\ UNCHANGED <<cache, store, unanswered, writable, wbKey, netLatency, now, run,
                   bootVars, job_results>>

(***************************************************************************)
(* The voice webhook: the loop of the reply by ordinals (main.py:450-504). *)
(* The handler is a coroutine that makes blocking calls, so no other       *)
(* request is served until it returns; alice.calls is the log of its       *)
(* reply_to_item calls.  The sleep of 0.34 s before each call (main.py:480)*)
(* is shorter than a clock tick and leaves `now` as it is.                 *)
(***************************************************************************)
\* the backend is asked only for an item that has no entry
NoOutcome == [kind |-> "none", text |-> NoText]
OutcomesFor(id) == IF id \in DOMAIN cache THEN {NoOutcome} ELSE BackendOutcomes

\* main.py:450-493: one turn of the loop, for valid_numbers[i]
AliceReplyStep ==
    /\ alice.pc = "replying"
    /\ alice.i <= Len(alice.valid_numbers)
    /\ LET num == alice.valid_numbers[alice.i]
           item_id == current_feedbacks_list[num].id
           raised == [NoRequest EXCEPT !.op = "alice", !.cmd = alice.cmd, !.status = 500]
           failed == [alice EXCEPT !.errors = Append(@, ErrItem(num)), !.i = @ + 1]
       IN  \E o \in OutcomesFor(item_id) :
           LET response_text == generate_ai_response(o)
               stores == o.kind # "none" /\ IsCacheable(response_text)
               cache1 == IF stores THEN Put(cache, item_id, response_text) ELSE cache
               reply_text == Lookup(cache1, item_id)
           IN  IF stores /\ ~writable
               THEN \* save_cache raises at main.py:469
                    /\ cache' = cache1
                    /\ alice' = IdleAlice
                    /\ last' = raised
                    /\ UNCHANGED <<store, unanswered>>
               ELSE IF (o.kind # "none" /\ ~stores) \/ reply_text \in {NoEntry, NoText}
               THEN /\ alice' = failed
                    /\ UNCHANGED <<cache, store, unanswered, last>>
               ELSE \E net \in NetAnswers("feedbacks") :
                    LET outcome == reply_to_item("feedbacks", net)
                        cache2 == IF outcome = "ok" THEN Del(cache1, item_id) ELSE cache1
                        logged == Append(alice.calls, [id |-> item_id, num |-> num,
                                                       outcome |-> outcome, text |-> reply_text])
                    IN  /\ cache' = cache2
                        /\ store' = IF outcome = "ok" \/ stores THEN SaveCache(cache2) ELSE store
                        /\ unanswered' = IF outcome = "ok" THEN MarkAnswered(unanswered, item_id)
                                         ELSE unanswered
                        /\ IF outcome = "raise" \/ (outcome = "ok" /\ ~writable)
                           THEN /\ alice' = IdleAlice
                                /\ last' = raised
                           ELSE /\ last' = last
                                /\ alice' = IF outcome = "ok"
                                            THEN [alice EXCEPT !.replied_count = @ + 1,
                                                               !.calls = logged, !.i = @ + 1]
                                            ELSE [failed EXCEPT !.calls = logged]
    /\ UNCHANGED <<writable, wbKey, netLatency, now, run, bootVars, job_results,
                   job_counter, current_feedbacks_list>>

\* main.py:495-504: the response of the reply by ordinals
OrdinalText(a) ==
    IF a.replied_count = Len(a.valid_numbers)
    THEN (IF Len(a.valid_numbers) = 1
          \* "Ответ отправлен на отзыв {n}."
          THEN "Otvet otpravlen na otzyv " \o ToString(a.valid_numbers[1]) \o "."
          \* "Ответы отправлены на {c} отзывов."
          ELSE "Otvety otpravleny na " \o ToString(a.replied_count) \o " otzyvov.")
    ELSE IF a.replied_count > 0
    \* "Отправлено ответов: {c}. Ошибки при отправке: {errors}."
    THEN "Otpravleno otvetov: " \o ToString(a.replied_count) \o ". Oshibki pri otpravke: "
            \o Join(a.errors) \o "."
    \* "Не удалось отправить ответы. Ошибки: {errors}."
    ELSE "Ne udalos otpravit otvety. Oshibki: " \o Join(a.errors) \o "."

AliceReplyReturn ==
    /\ alice.pc = "replying"
    /\ alice.i > Len(alice.valid_numbers)
    /\ last' = [NoRequest EXCEPT !.op = "alice", !.cmd = alice.cmd, !.status = 200,
                                 !.text = OrdinalText(alice)]
    /\ alice' = [alice EXCEPT !.pc = "idle"]
    /\ UNCHANGED <<cache, store, unanswered, writable, wbKey, netLatency, now, run,
                   bootVars, job_results, job_counter, current_feedbacks_list>>

(***************************************************************************)
(* Background jobs, _run_auto_reply_job (main.py:248-277).  Job number j   *)
(* is run j: the task that alice_webhook hands to the task runner, which   *)
(* runs it in a worker thread once the response is out.  A JobRecord is    *)
(* the dict stored under str(j); its result is None while the job runs,    *)
(* then the summary of the run or {"error": str(e)}.                       *)
(***************************************************************************)
Jobs == 1 .. MaxJobs

JobRecord(status, result) ==
    [status |-> status, result |-> result, timestamp |-> now]

\* main.py:251-256: the task begins and stores its record
JobStart(j) ==
    /\ j <= job_counter
    /\ JobId(j) \notin DOMAIN job_results
    /\ run[j].pc = "idle"
    /\ job_results' = Put(job_results, JobId(j), JobRecord("running", NoResult))
    /\ UNCHANGED <<cache, store, unanswered, writable, wbKey, netLatency, now, last, run,
                   bootVars, job_counter, current_feedbacks_list, alice>>

\* the task is inside _run_auto_reply_5_stars_feedbacks_sync (main.py:257)
JobRunning(j) ==
    JobId(j) \in DOMAIN job_results /\ job_results[JobId(j)].status = "running"

\* main.py:261-277: the record stored when the bulk run has returned or raised
\* (first a faulty variant that stores every ending as completed)
JobRecordOnReturn_AlwaysCompleted(r) == JobRecord("completed", r.result)
JobRecordOnReturn(r) ==
    LET \* wb_api.py:15, the ValueError of get_wb_api_headers
        no_api_key == "Wildberries API Key not found in .env file"
        \* str(e) of the OSError that open(CACHE_FILE, 'w') raises
        cache_write == "[Errno 30] Read-only file system: '/app/cache/response_cache.json'"
    IN  IF r.pc = "done" THEN JobRecord("completed", r.result)
        \* the "result" of a failed job: {"error": str(e)}
        ELSE JobRecord("failed",
                       [error |-> IF r.fetch = "raised" THEN no_api_key ELSE cache_write])

JobEnd(j) ==
    /\ JobRunning(j)
    /\ run[j].pc \in {"done", "failed"}
    /\ job_results' = Put(job_results, JobId(j), JobRecordOnReturn(run[j]))
    /\ UNCHANGED <<cache, store, unanswered, writable, wbKey, netLatency, now, last, run,
                   bootVars, job_counter, current_feedbacks_list, alice>>

(***************************************************************************)
(* Two jobs at once.  Each job is a worker thread of the task runner, so   *)
(* a second job runs while the first is inside a call of the backend or    *)
(* of the marketplace.  The turns of the two loops are cut at these calls: *)
(* the test of the cache and the write after generate_ai_response          *)
(* (main.py:172 and 186), the read of the draft and what follows           *)
(* reply_to_item (main.py:205 and 222-235).  run[j].reply_text is the      *)
(* local reply_text of the submission loop.                                *)
(***************************************************************************)
\* main.py:171-175: a turn of the generation loop up to the backend call
Phase1Check(j) ==
    /\ run[j].pc = "phase1"
    /\ run[j].i <= Len(run[j].feedbacks)
    /\ LET fb == run[j].feedbacks[run[j].i]
       IN  run' = [run EXCEPT ![j] =
                IF fb.id \in DOMAIN cache
                THEN [Phase1Body(run[j], cache, fb, NoOutcome).r EXCEPT !.i = @ + 1]
                ELSE [run[j] EXCEPT !.pc = "generating"]]
    /\ UNCHANGED <<cache, store, unanswered, writable, wbKey, netLatency, now, last,
                   bootVars, voiceVars>>

\* main.py:176-192: the backend call has returned; the item had no entry
\* when the turn began, whatever the cache holds by now
\* (first a faulty variant that keeps an entry another job has written)
Phase1Store_KeepFirst(j, o) ==
    /\ run[j].pc = "generating"
    /\ LET fb == run[j].feedbacks[run[j].i]
           b == Phase1Body(run[j], EmptyDict, fb, o)
       IN  /\ cache' = IF fb.id \in DOMAIN b.cache /\ fb.id \notin DOMAIN cache
                       THEN Put(cache, fb.id, b.cache[fb.id]) ELSE cache
           /\ run' = [run EXCEPT ![j] = [b.r EXCEPT !.pc = "phase1", !.i = @ + 1]]
    /\ UNCHANGED <<store, unanswered, writable, wbKey, netLatency, now, last, bootVars, voiceVars>>
Phase1Store(j, o) ==
    /\ run[j].pc = "generating"
    /\ LET fb == run[j].feedbacks[run[j].i]
           b == Phase1Body(run[j], EmptyDict, fb, o)
       IN  /\ cache' = IF fb.id \in DOMAIN b.cache
                       THEN Put(cache, fb.id, b.cache[fb.id]) ELSE cache
           /\ run' = [run EXCEPT ![j] = [b.r EXCEPT !.pc = "phase1", !.i = @ + 1]]
    /\ UNCHANGED <<store, unanswered, writable, wbKey, netLatency, now, last, bootVars, voiceVars>>

\* main.py:201-208: a turn of the submission loop up to the draft it reads
\* (first a faulty variant that stays at an item it does not submit)
Phase2Take_StaysOnSkip(j) ==
    /\ run[j].pc = "phase2"
    /\ run[j].i <= Len(run[j].feedbacks)
    /\ LET fb == run[j].feedbacks[run[j].i]
           reply_text == Lookup(cache, fb.id)
       IN  run' = [run EXCEPT ![j] =
                IF fb.rating # FiveStars \/ reply_text \in {NoEntry, NoText}
                THEN run[j]
                ELSE [run[j] EXCEPT !.pc = "sending", !.reply_text = reply_text]]
    /\ UNCHANGED <<cache, store, unanswered, writable, wbKey, netLatency, now, last,
                   bootVars, voiceVars>>
Phase2Take(j) ==
    /\ run[j].pc = "phase2"
    /\ run[j].i <= Len(run[j].feedbacks)
    /\ LET fb == run[j].feedbacks[run[j].i]
           reply_text == Lookup(cache, fb.id)
       IN  run' = [run EXCEPT ![j] =
                IF fb.rating # FiveStars \/ reply_text \in {NoEntry, NoText}
                THEN [run[j] EXCEPT !.i = @ + 1]
                ELSE [run[j] EXCEPT !.pc = "sending", !.reply_text = reply_text]]
    /\ UNCHANGED <<cache, store, unanswered, writable, wbKey, netLatency, now, last,
                   bootVars, voiceVars>>

\* main.py:210-235: the window, the call of reply_to_item with the draft
\* that was read, and the bookkeeping
Phase2Submit(j, net) ==
    /\ run[j].pc = "sending"
    /\ LET r == run[j]
           fb == r.feedbacks[r.i]
           th == Throttle(r, now)
           outcome == reply_to_item("feedbacks", net)
           r1 == [r EXCEPT !.pc = "phase2",
                           !.second_window_start = th.start,
                           !.sent_in_current_second = th.sent,
                           !.calls = Append(@, [id |-> fb.id, at |-> th.callAt,
                                                outcome |-> outcome,
                                                text |-> r.reply_text])]
       IN  /\ cache' = BulkCacheAfterSubmit(cache, fb.id, outcome)
           /\ store' = IF cache' # cache THEN SaveCache(cache') ELSE store
           /\ unanswered' = IF outcome = "ok"
                            THEN MarkAnswered(unanswered, fb.id) ELSE unanswered
           /\ now' = th.callAt
           /\ run' = [run EXCEPT ![j] =
                        IF outcome = "raise" \/ (cache' # cache /\ ~writable)
                        THEN [r1 EXCEPT !.pc = "failed"]
                        ELSE AfterSubmit(r1, fb.id, outcome)]
    /\ UNCHANGED <<writable, wbKey, netLatency, last, bootVars, voiceVars>>

(***************************************************************************)
(* Initial states and specifications.                                      *)
(***************************************************************************)
\* a draft left in the store by an earlier process (written by an earlier
\* generation or by POST /api/cache-selected-response)
OldDrafts == {"Spasibo, chto vybrali nas!"}

\* the mappings load_cache can bring up for items 1..n
LoadedCaches(n) == UNION {[S -> OldDrafts] : S \in SUBSET (1 .. n)}

\* the unanswered lists a marketplace with at most n feedbacks can hold;
\* ids are distinct and numbered in the order of the list (newest first)
Snapshots(n) ==
    UNION {[1 .. k -> Ratings] : k \in 0 .. n}

Feedbacks(ratings) == [k \in DOMAIN ratings |-> [id |-> k, rating |-> ratings[k]]]

InitCommon ==
    /\ wbKey \in BOOLEAN
    /\ now = 0
    /\ last = NoRequest
    /\ run = [j \in Runs |-> IdleRun]
    /\ job_results = EmptyJobs
    /\ job_counter = 0
    /\ current_feedbacks_list = <<>>
    /\ alice = IdleAlice

\* the process is up: startup_event is over and the file holds the mapping
InitServing ==
    /\ file = MappingFile
    /\ boot = BootUp
    /\ store = cache
    /\ writable = TRUE

\* the server is up with a loaded cache and serves single-item requests;
\* these address an item by the id the client sends, whether the marketplace
\* still lists it or not, and the list is empty here
Init ==
    /\ cache \in LoadedCaches(MaxItems)
    /\ unanswered = <<>>
    /\ netLatency = 0
    /\ InitServing
    /\ InitCommon

Next ==
    \/ \E id \in Ids, force \in BOOLEAN, prompt \in Prompts :
          /\ GenerateResponse(id, force, prompt)
          /\ UNCHANGED <<unanswered, writable, wbKey, netLatency, now, run, bootVars, voiceVars>>
    \/ \E id \in Ids, type \in ItemTypes, text \in ReplyTexts, answer \in Answers :
          /\ SendReply(id, type, text, answer)
          /\ UNCHANGED <<writable, wbKey, netLatency, now, run, bootVars, voiceVars>>

Spec == Init /\ [][Next]_vars

\* the operator works on a draft: asks for variants, selects one, asks again
NextVariants ==
    \/ \E id \in Ids, force \in BOOLEAN, prompt \in Prompts :
          /\ GenerateMultipleResponses(id, force, prompt)
          /\ UNCHANGED <<writable, wbKey, netLatency, now, run, bootVars, voiceVars>>
    \/ \E id \in Ids \cup {0}, response \in {NoText, "Spasibo! Zhdyom vas snova."} :
          /\ CacheSelectedResponse(id, response)
          /\ UNCHANGED <<writable, wbKey, netLatency, now, run, bootVars, voiceVars>>

\* (these requests never look at the marketplace key)
InitVariants == Init /\ wbKey = TRUE

SpecVariants == InitVariants /\ [][NextVariants]_vars

\* the same requests served by a process whose cache file may have become
\* unwritable since it started (a full disk, a read-only volume)
InitDisk ==
    /\ cache \in LoadedCaches(MaxItems)
    /\ unanswered = <<>>
    /\ netLatency = 0
    /\ file = MappingFile
    /\ boot = BootUp
    /\ store = cache
    /\ writable \in BOOLEAN
    /\ InitCommon

SpecDisk == InitDisk /\ [][Next]_vars

\* one synchronous bulk run against a marketplace that answers at once
InitBulk ==
    /\ cache \in LoadedCaches(MaxFeedbacks)
    /\ unanswered \in {Feedbacks(q) : q \in Snapshots(MaxFeedbacks)}
    /\ netLatency = 0
    /\ InitServing
    /\ InitCommon

NextBulk ==
    \/ \E net \in BOOLEAN : BulkStart(0, net)
    \/ \E o \in BackendOutcomes : Phase1Step(0, o)
    \/ Phase1End(0)
    \/ \E net \in NetAnswers("feedbacks"), d \in 0 .. netLatency : Phase2Step(0, net, d)
    \/ BulkReturn(0)

SpecBulk == InitBulk /\ [][NextBulk]_vars

\* the submission phase under every timing: five-star feedbacks whose drafts
\* are cached already, and marketplace calls that take 0..MaxLatency ticks
InitRate ==
    /\ cache = [k \in 1 .. MaxRateItems |-> CHOOSE t \in OldDrafts : TRUE]
    /\ unanswered = Feedbacks([k \in 1 .. MaxRateItems |-> FiveStars])
    /\ netLatency \in 0 .. MaxLatency
    /\ InitServing
    /\ InitCommon

SpecRate == InitRate /\ [][NextBulk]_vars

\* the voice assistant talks to a serving process; no job is started
VoiceRequests ==
    BareRequests \cup {Said(c) : c \in OrdinalCommands \cup QueryCommands \cup OtherCommands}

InitVoice ==
    /\ cache \in LoadedCaches(MaxItems)
    /\ unanswered \in {Feedbacks(q) : q \in Snapshots(MaxItems)}
    /\ netLatency = 0
    /\ InitServing
    /\ InitCommon

NextVoice ==
    \/ \E rq \in VoiceRequests : AliceWebhook(rq)
    \/ AliceReplyStep
    \/ AliceReplyReturn

SpecVoice == InitVoice /\ [][NextVoice]_vars

\* the voice assistant starts background jobs and asks for their status
JobRequests == {Said(c) : c \in JobCommands \cup StatusCommands}

InitJobs ==
    /\ cache \in LoadedCaches(MaxJobItems)
    /\ unanswered \in {Feedbacks(q) : q \in Snapshots(MaxJobItems)}
    /\ netLatency = 0
    /\ InitServing
    /\ InitCommon

NextJobs ==
    \/ \E rq \in JobRequests : AliceWebhook(rq)
    \/ \E j \in Jobs : JobStart(j)
    \/ \E j \in Jobs, net \in BOOLEAN : JobRunning(j) /\ BulkStart(j, net)
    \/ \E j \in Jobs, o \in BackendOutcomes : Phase1Step(j, o)
    \/ \E j \in Jobs : Phase1End(j)
    \/ \E j \in Jobs, net \in NetAnswers("feedbacks") : Phase2Step(j, net, 0)
    \/ \E j \in Jobs : BulkReturn(j)
    \/ \E j \in Jobs : JobEnd(j)

SpecJobs == InitJobs /\ [][NextJobs]_vars

\* two jobs started by voice, their turns interleaved with one another and
\* with the questions about their status
NextRace ==
    \/ \E rq \in JobRequests : AliceWebhook(rq)
    \/ \E j \in Jobs : JobStart(j)
    \/ \E j \in Jobs, net \in BOOLEAN : JobRunning(j) /\ BulkStart(j, net)
    \/ \E j \in Jobs : Phase1Check(j)
    \/ \E j \in Jobs, o \in BackendOutcomes : Phase1Store(j, o)
    \/ \E j \in Jobs : Phase1End(j)
    \/ \E j \in Jobs : Phase2Take(j)
    \/ \E j \in Jobs, net \in NetAnswers("feedbacks") : Phase2Submit(j, net)
    \/ \E j \in Jobs : BulkReturn(j)
    \/ \E j \in Jobs : JobEnd(j)

SpecRace == InitJobs /\ [][NextRace]_vars

\* a started job is a thread that is scheduled again and again, and the
\* calls it makes return: each of its steps, once it can be taken, is taken
FairRace ==
    /\ SpecRace
    /\ \A j \in Jobs :
          WF_vars(\/ \E net \in BOOLEAN : JobRunning(j) /\ BulkStart(j, net)
                  \/ Phase1Check(j)
                  \/ \E o \in BackendOutcomes : Phase1Store(j, o)
                  \/ Phase1End(j)
                  \/ Phase2Take(j)
                  \/ \E net \in NetAnswers("feedbacks") : Phase2Submit(j, net)
                  \/ BulkReturn(j)
                  \/ JobEnd(j))

\* what a starting process may find at CACHE_FILE
StoredArrays ==
    UNION {[1 .. n -> {PairElem(1, t) : t \in OldDrafts} \cup {NumberElem}] :
              n \in 0 .. MaxArrayLen}
StoredFiles ==
    {FileOf(k, <<>>) : k \in {"missing", "directory", "empty", "corrupt", "scalar", "mapping"}}
        \cup {FileOf("array", a) : a \in StoredArrays}

\* a process is started: response_cache is the empty dict of main.py:23, the
\* path CACHE_FILE holds whatever an earlier process or an operator left
InitStartup ==
    /\ file \in StoredFiles
    /\ store \in (IF file.kind = "mapping" THEN LoadedCaches(MaxFeedbacks) ELSE {EmptyDict})
    /\ cache = EmptyDict
    /\ writable \in BOOLEAN
    /\ unanswered \in {Feedbacks(q) : q \in Snapshots(MaxFeedbacks)}
    /\ netLatency = 0
    /\ boot = BootOff
    /\ InitCommon

NextStartup ==
    \E fnet, qnet \in BOOLEAN, qs \in SUBSET (1 .. MaxFeedbacks) : StartupEvent(fnet, qnet, qs)

SpecStartup == InitStartup /\ [][NextStartup]_vars

(***************************************************************************)
(* Properties.                                                             *)
(***************************************************************************)
\* the fixed prefixes by which the spec recognises a fallback string
ErrorPrefixes == {PrefixOshibka, PrefixApiKey, PrefixNeUdalos}
RecognizedFallback(t) == t = NoText \/ \E p \in ErrorPrefixes : StartsWith(t, p)

\* the strings generate_ai_response returns when the backend failed
FailureTexts == {generate_ai_response(o) : o \in FailureOutcomes}

\* C1: a generate request with force=false and no instruction for an item
\* that is cached answers 200 with exactly the cached text, calls the
\* generator zero times and leaves cache and store as they were (so the same
\* request repeated meets the same cache and returns the same text).
C1_CachedReplay ==
    [][(/\ last'.op = "generate"
        /\ ~last'.force
        /\ last'.prompt = NoText
        /\ last'.id \in DOMAIN cache)
       => (/\ last'.status = 200
           /\ last'.text = cache[last'.id]
           /\ last'.gen = 0
           /\ cache' = cache
           /\ store' = store)]_vars

C1_Witness ==
    /\ last.op = "generate"
    /\ ~last.force
    /\ last.prompt = NoText
    /\ last.had # NoEntry
    /\ last.text = last.had
    /\ last.gen = 0

\* C2: a generate request calls no generator exactly when force is false,
\* no instruction is supplied and the item is cached; in particular a
\* request that carries an instruction always calls the generator.
C2_InstructionRegenerates ==
    last.op = "generate" =>
        (last.gen = 0 <=> (~last.force /\ last.prompt = NoText /\ last.had # NoEntry))

\* C3: a generate request with force=true calls the generator exactly once
\* whatever the cache holds, and when the generated text is not a recognized
\* fallback the item's entry becomes that text, every other entry unchanged.
C3_ForcedRegeneration ==
    [][(last'.op = "generate" /\ last'.force)
       => (/\ last'.gen = 1
           /\ last'.text = last'.out
           /\ ~RecognizedFallback(last'.out) =>
                /\ DOMAIN cache' = DOMAIN cache \cup {last'.id}
                /\ cache'[last'.id] = last'.out
                /\ \A k \in DOMAIN cache \ {last'.id} : cache'[k] = cache[k])]_vars

C3_Witness ==
    /\ last.op = "generate"
    /\ last.force
    /\ last.had # NoEntry
    /\ last.gen = 1
    /\ ~RecognizedFallback(last.out)
    /\ last.out # last.had
    /\ cache[last.id] = last.out

\* C4: when the generator returns a recognized fallback (an empty text or a
\* text opening with a fixed error prefix) the single-item path writes
\* nothing: cache and store stay as they were (absent stays absent, present
\* keeps its text) and the fallback text is the response.
C4_NoCacheOnError ==
    [][(last'.op = "generate" /\ last'.gen = 1 /\ RecognizedFallback(last'.out))
       => (/\ cache' = cache
           /\ store' = store
           /\ last'.status = 200
           /\ last'.text = last'.out)]_vars

C4_Witness ==
    /\ last.op = "generate"
    /\ last.gen = 1
    /\ last.out # NoText
    /\ RecognizedFallback(last.out)
    /\ last.text = last.out
    /\ last.had # NoEntry
    /\ cache[last.id] = last.had

\* C5: no string that generate_ai_response returns on a backend failure is
\* ever written to the cache.
C5_NoFailureCached ==
    \A id \in DOMAIN cache : cache[id] \notin FailureTexts

\* C6: a reply request whose submission succeeds leaves the cache without
\* the item's key and every other entry as it was, with the store equal to
\* the cache; when the item had no entry, cache and store do not change.
C6_ReplyRemovesEntry ==
    [][(last'.op = "reply" /\ last'.sub = "ok")
       => (/\ last'.status = 200
           /\ DOMAIN cache' = DOMAIN cache \ {last'.id}
           /\ \A k \in DOMAIN cache' : cache'[k] = cache[k]
           /\ store' = cache'
           /\ last'.id \notin DOMAIN cache => (cache' = cache /\ store' = store))]_vars

C6_Witness ==
    /\ last.op = "reply"
    /\ last.sub = "ok"
    /\ last.status = 200
    /\ last.had # NoEntry
    /\ last.id \notin DOMAIN cache
    /\ last.id \notin DOMAIN store
    /\ DOMAIN cache # {}

\* C7: a reply request whose submission the submitter answers with false is
\* answered 500 and leaves cache and store exactly as they were.
C7_FailedReplyKeepsCache ==
    [][(last'.op = "reply" /\ last'.sub = "fail")
       => (/\ last'.status = 500
           /\ cache' = cache
           /\ store' = store)]_vars

C7_Witness ==
    /\ last.op = "reply"
    /\ last.sub = "fail"
    /\ last.status = 500
    /\ last.had # NoEntry
    /\ last.id \in DOMAIN cache
    /\ cache[last.id] = last.had

\* the reply_to_item calls of run j that fall in the second starting at clock t
CallsInSecondFrom(j, t) ==
    {m \in 1 .. Len(run[j].calls) :
        run[j].calls[m].at >= t /\ run[j].calls[m].at < t + TicksPerSecond}

\* C8: in a bulk run no rolling 1-second interval holds more than 3
\* submission calls (an interval with more than 3 calls holds as many when it
\* is moved to start at its first call, so the intervals that start at a
\* call are enough).
C8_RateCeiling ==
    \A j \in Runs : \A k \in 1 .. Len(run[j].calls) :
        Cardinality(CallsInSecondFrom(j, run[j].calls[k].at)) <= RateLimit

\* C8, narrowed to runs whose submissions all succeed: the ceiling also
\* fails there, because the counter is kept per fixed window
C8_RateCeilingAllSent ==
    \A j \in Runs :
        (\A m \in 1 .. Len(run[j].calls) : run[j].calls[m].outcome = "ok")
            => \A k \in 1 .. Len(run[j].calls) :
                  Cardinality(CallsInSecondFrom(j, run[j].calls[k].at)) <= RateLimit

\* C9: within one bulk run the submitter is called at most once per item
\* id, whether the call failed or succeeded.
C9_OneSubmissionPerItem ==
    \A j \in Runs : \A k, m \in 1 .. Len(run[j].calls) :
        k # m => run[j].calls[k].id # run[j].calls[m].id

C9_Witness ==
    /\ run[0].pc = "done"
    /\ Len(run[0].calls) >= 2
    /\ \E k, m \in 1 .. Len(run[0].calls) :
          k < m /\ run[0].calls[k].outcome = "fail" /\ run[0].calls[m].outcome = "ok"

\* C10: a phase-2 turn on a 5-star item that has a cached text calls the
\* submitter for it with that text; if the call succeeds, the entry is gone
\* from the cache and from the store when the turn ends (before the next
\* item's turn) and replied_count has grown by one; if it fails, the id is in
\* errors with a non-empty message, the entry keeps its text and
\* replied_count is as it was.
C10_Phase2Bookkeeping ==
    [][\A j \in Runs :
        (/\ run[j].pc = "phase2"
         /\ run'[j] # run[j]
         /\ run[j].i <= Len(run[j].feedbacks)
         /\ run[j].feedbacks[run[j].i].rating = FiveStars
         /\ Lookup(cache, run[j].feedbacks[run[j].i].id) \notin {NoEntry, NoText})
        => LET id == run[j].feedbacks[run[j].i].id
               n == Len(run'[j].calls)
           IN  /\ n = Len(run[j].calls) + 1
               /\ run'[j].calls[n].id = id
               /\ run'[j].calls[n].text = cache[id]
               /\ run'[j].calls[n].outcome \in {"ok", "fail"}
               /\ run'[j].i = run[j].i + 1
               /\ run'[j].calls[n].outcome = "ok" =>
                    /\ id \notin DOMAIN cache'
                    /\ id \notin DOMAIN store'
                    /\ store' = cache'
                    /\ run'[j].replied_count = run[j].replied_count + 1
                    /\ run'[j].errors = run[j].errors
               /\ run'[j].calls[n].outcome = "fail" =>
                    /\ id \in DOMAIN run'[j].errors
                    /\ run'[j].errors[id] # NoText
                    /\ cache' = cache
                    /\ run'[j].replied_count = run[j].replied_count]_vars

C10_Witness ==
    /\ run[0].pc = "done"
    /\ run[0].replied_count >= 1
    /\ \E k, m \in 1 .. Len(run[0].calls) :
          /\ run[0].calls[k].outcome = "ok"
          /\ run[0].calls[k].id \notin DOMAIN cache
          /\ run[0].calls[m].outcome = "fail"
          /\ run[0].calls[m].id \in DOMAIN run[0].errors
          /\ Lookup(cache, run[0].calls[m].id) = run[0].calls[m].text

(***************************************************************************)
(* The bulk run's accounting.                                              *)
(***************************************************************************)
\* the phase-1 turns of run j: those that found the item cached, those whose
\* backend call failed (an except branch of generate_ai_response), those whose
\* backend call returned a reply
TurnsCached(j) == {k \in 1 .. Len(run[j].gens) : run[j].gens[k].had # NoEntry}
TurnsFailed(j) ==
    {k \in 1 .. Len(run[j].gens) :
        run[j].gens[k].kind \in {o.kind : o \in FailureOutcomes}}
TurnsSucceeded(j) ==
    {k \in 1 .. Len(run[j].gens) :
        run[j].gens[k].kind = "text" /\ ~RecognizedFallback(run[j].gens[k].out)}

\* C11: in every bulk run generated counts the items that were not cached at
\* their phase-1 turn and whose generation succeeded, cached counts the items
\* skipped because they had an entry, and every item whose generation failed
\* is a key of errors with a non-empty message and is not in the cache.
C11_Phase1Accounting ==
    \A j \in Runs :
        /\ run[j].generated_count = Cardinality(TurnsSucceeded(j))
        /\ run[j].cached_count = Cardinality(TurnsCached(j))
        /\ \A k \in TurnsFailed(j) :
              /\ run[j].gens[k].id \in DOMAIN run[j].errors
              /\ run[j].errors[run[j].gens[k].id] # NoText
              /\ run[j].gens[k].id \notin DOMAIN cache

\* the items of run j's snapshot rated 5, and the others
FiveStarItems(j) ==
    {k \in 1 .. Len(run[j].feedbacks) : run[j].feedbacks[k].rating = FiveStars}
OtherItems(j) == (1 .. Len(run[j].feedbacks)) \ FiveStarItems(j)

\* run 0 is over, every backend call of it returned a reply and every
\* submitter call of it succeeded
RanClean ==
    /\ run[0].pc = "done"
    /\ \A k \in 1 .. Len(run[0].gens) : k \in TurnsSucceeded(0)
    /\ \A m \in 1 .. Len(run[0].calls) : run[0].calls[m].outcome = "ok"

\* C12: when the cache is empty at the start and generator and submitter
\* always succeed, the bulk run returns total_feedbacks = generated = size of
\* the snapshot, cached = 0, replied_5_stars = number of 5-star items,
\* errors = {}, and the cache is left holding exactly the items not rated 5,
\* each with the text generated for it.
C12_CleanRunSummary ==
    (cache = EmptyDict) =>
        [](RanClean =>
            /\ run[0].result.status = "ok"
            /\ run[0].result.total_feedbacks = Len(run[0].feedbacks)
            /\ run[0].result.generated = Len(run[0].feedbacks)
            /\ run[0].result.cached = 0
            /\ run[0].result.replied_5_stars = Cardinality(FiveStarItems(0))
            /\ run[0].result.errors = EmptyDict
            /\ DOMAIN cache = {run[0].feedbacks[k].id : k \in OtherItems(0)}
            /\ \A k \in OtherItems(0) :
                  /\ run[0].gens[k].id = run[0].feedbacks[k].id
                  /\ cache[run[0].feedbacks[k].id] = run[0].gens[k].out)

C12_Witness ==
    /\ RanClean
    /\ Len(run[0].feedbacks) = MaxFeedbacks
    /\ Len(run[0].gens) = MaxFeedbacks
    /\ run[0].result.generated = MaxFeedbacks
    /\ run[0].result.replied_5_stars >= 1
    /\ run[0].result.replied_5_stars < MaxFeedbacks
    /\ Cardinality(DOMAIN cache) = MaxFeedbacks - run[0].result.replied_5_stars

\* the submitter calls of run j for item id
CallsFor(j, id) == {m \in 1 .. Len(run[j].calls) : run[j].calls[m].id = id}

C14_ReconcileRestricts ==
    (boot.pc = "up" /\ boot.fetched) =>
        /\ DOMAIN cache = DOMAIN boot.loaded \cap boot.active
        /\ \A id \in DOMAIN cache : cache[id] = boot.loaded[id]

C14_Witness ==
    /\ boot.pc = "up"
    /\ boot.fetched
    /\ Cardinality(DOMAIN boot.loaded) = MaxFeedbacks
    /\ DOMAIN cache # {}
    /\ DOMAIN cache # DOMAIN boot.loaded
    /\ boot.active \ DOMAIN boot.loaded = {}
    /\ store = cache

(***************************************************************************)
(* Persistence failures.                                                   *)
(***************************************************************************)
\* C15: a failing write of the store is absorbed.  A generate request whose
\* generated text is a draft is answered 200 with that text and the cache
\* holds it; a reply request whose submission succeeded is answered 200 and
\* the cache is without the item's entry -- whether the store could be
\* written or not.
C15_WriteFailureAbsorbed ==
    /\ (last.op = "generate" /\ last.gen = 1 /\ ~RecognizedFallback(last.out)) =>
          /\ last.status = 200
          /\ last.text = last.out
          /\ Lookup(cache, last.id) = last.out
    /\ (last.op = "reply" /\ last.sub = "ok") =>
          /\ last.status = 200
          /\ last.id \notin DOMAIN cache

\* C16: loading the cache never fails the process, and leaves the cache
\* empty unless the file holds a valid mapping, in which case the cache is
\* that mapping.  (Stated for a cache directory that can be written.)
C16_LoadNeverFails ==
    [][(boot.pc = "off" /\ writable) =>
          /\ boot'.pc = "up"
          /\ file.kind # "mapping" => boot'.loaded = EmptyDict
          /\ file.kind = "mapping" => boot'.loaded = store]_vars

(***************************************************************************)
(* Validation of reply requests.                                           *)
(***************************************************************************)
\* a reply request that carries no reply text: its text field is empty, and
\* if it is for a question its answer payload has no text either
NoReplyText(type, text, answer) ==
    /\ text = NoText
    /\ type = "questions" => (~answer.given \/ answer.text = NoText)

\* C17: a reply request whose resolved text is empty is answered 400 before
\* any submission: the submitter is not called (no call, no text handed
\* over, the marketplace's list as it was) and cache and store are unchanged.
\* (A step is taken for the request with the item id and type that `last`
\* shows afterwards and any text and answer payload that can produce it.)
C17_EmptyReplyRejected ==
    [][\A text \in ReplyTexts, answer \in Answers :
          (/\ last'.op = "reply"
           /\ NoReplyText(last'.type, text, answer)
           /\ SendReply(last'.id, last'.type, text, answer)) =>
              /\ last'.status = 400
              /\ last'.sub = "none"
              /\ last'.sent = NoText
              /\ cache' = cache
              /\ store' = store
              /\ unanswered' = unanswered]_vars

C17_Witness ==
    /\ last.op = "reply"
    /\ last.status = 400
    /\ last.sub = "none"
    /\ last.type = "questions"
    /\ last.had # NoEntry
    /\ Lookup(cache, last.id) = last.had
    /\ store = cache

(***************************************************************************)
(* The fetch of a bulk run.                                                *)
(***************************************************************************)
\* C20: a bulk run whose initial fetch failed (the request to the
\* marketplace failed, or the call raised) is never reported as a successful
\* run: it returns no summary with status "ok".
C20_FetchFailureReported ==
    \A j \in Runs :
        run[j].fetch \in {"failed", "raised"} => run[j].result.status # "ok"

(***************************************************************************)
(* The voice webhook and the background jobs.                              *)
(***************************************************************************)
\* C18: every webhook request is answered with a response that carries a
\* text and an end_session flag; no exception leaves the handler, whatever
\* the collaborators do.
C18_VoiceNeverRaises ==
    last.op = "alice" =>
        /\ last.status = 200
        /\ last.text # NoText
        /\ last.end \in BOOLEAN

\* C19: a JobRecord is created with status running; its status changes at
\* most once, from running to completed or to failed, and a record that is
\* completed or failed never changes again; a completed record carries the
\* summary of its bulk run, a failed one an error message; no record ever
\* leaves job_results.
C19_JobRecordLifecycle ==
    [][/\ \A id \in DOMAIN job_results :
             /\ id \in DOMAIN job_results'
             /\ job_results'[id] # job_results[id] =>
                   /\ job_results[id].status = "running"
                   /\ job_results'[id].status \in {"completed", "failed"}
       /\ \A id \in DOMAIN job_results' \ DOMAIN job_results :
             job_results'[id].status = "running"
       /\ DOMAIN job_results' \subseteq {JobId(j) : j \in Jobs}
       /\ \A j \in Jobs :
             JobId(j) \in DOMAIN job_results' =>
                LET rec == job_results'[JobId(j)]
                IN  /\ rec.status \in {"running", "completed", "failed"}
                    /\ rec.status = "completed" =>
                          /\ run'[j].pc = "done"
                          /\ rec.result = run'[j].result
                          /\ rec.result.status = "ok"
                          /\ rec.result.total_feedbacks = Len(run'[j].feedbacks)
                    /\ rec.status = "failed" =>
                          /\ run'[j].pc = "failed"
                          /\ rec.result \in [error : STRING \ {NoText}]]_vars

C19_Witness ==
    /\ JobId(1) \in DOMAIN job_results
    /\ job_results[JobId(1)].status = "completed"
    /\ job_results[JobId(1)].result.total_feedbacks = MaxJobItems
    /\ job_results[JobId(1)].result.replied_5_stars >= 1
    /\ last.op = "alice"
    /\ last.text = TxtJobRunning(JobId(1))

(***************************************************************************)
(* The variants of a draft and the selection of one.                       *)
(***************************************************************************)
\* C21: generate_multiple_ai_responses returns exactly three labelled
\* entries whichever of its three generations fail: the slot of a generation
\* that succeeded holds its text, the slot of one that failed holds the
\* fallback text, and no slot is left out; so every answer of the endpoint
\* that was generated has three non-empty entries.
C21_ThreeVariants ==
    LET labels == <<"gemini", "gemini_v2", "gemini_v3">>
    IN  /\ \A outs \in [1 .. 3 -> VariantOutcomes] :
              LET responses == generate_multiple_ai_responses(outs)
              IN  /\ DOMAIN responses = {labels[k] : k \in 1 .. 3}
                  /\ \A k \in 1 .. 3 :
                        responses[labels[k]] =
                            IF outs[k].kind = "text" THEN NormalizeText(outs[k].text)
                            ELSE ErrVariant
        /\ (last.op = "multi" /\ last.gen = 3) =>
              /\ Cardinality(DOMAIN last.variants) = 3
              /\ \A l \in DOMAIN last.variants : last.variants[l] # NoText

\* two of the three generations failed and the answer has its three entries
C21_Witness ==
    /\ last.op = "multi"
    /\ last.gen = 3
    /\ DOMAIN last.variants = {"gemini", "gemini_v2", "gemini_v3"}
    /\ last.variants["gemini"] = ErrVariant
    /\ last.variants["gemini_v2"] # ErrVariant
    /\ last.variants["gemini_v3"] = ErrVariant

\* C22: a request for variants never writes to the cache, whether it is
\* answered from the cache or by generations that succeed or fail: cache and
\* store after the request are what they were before it.
C22_VariantsNeverCached ==
    [][last'.op = "multi" => (cache' = cache /\ store' = store)]_vars

\* three drafts were generated for an item without an entry, which still
\* has none
C22_Witness ==
    /\ last.op = "multi"
    /\ last.gen = 3
    /\ last.had = NoEntry
    /\ \A l \in DOMAIN last.variants : IsCacheable(last.variants[l])
    /\ last.id \notin DOMAIN cache

\* C23: a selection with a non-empty id and a non-empty response sets the
\* entry of that id to the response whatever the entry was, writes the store,
\* and changes no other entry; one with an empty id or an empty response is
\* answered 400 and leaves cache and store as they were.
C23_SelectionUpserts ==
    [][last'.op = "select" =>
          IF last'.id # 0 /\ last'.out # NoText
          THEN /\ last'.status = 200
               /\ DOMAIN cache' = DOMAIN cache \cup {last'.id}
               /\ cache'[last'.id] = last'.out
               /\ \A k \in DOMAIN cache \ {last'.id} : cache'[k] = cache[k]
               /\ store' = cache'
          ELSE /\ last'.status = 400
               /\ cache' = cache
               /\ store' = store]_vars

\* the selection replaced an entry that held another text, and the other
\* item's entry is still there
C23_Witness ==
    /\ last.op = "select"
    /\ last.status = 200
    /\ last.had \notin {NoEntry, last.out}
    /\ cache[last.id] = last.out
    /\ \E k \in DOMAIN cache : k # last.id /\ cache[k] # last.out

(***************************************************************************)
(* The writes of the startup reconcile.                                    *)
(***************************************************************************)
\* C24 as stated: every startup reconcile (the handler came up and both
\* fetches returned) invokes persistence exactly once.
C24_ReconcileSavesOnce ==
    (boot.pc = "up" /\ boot.fetched) => boot.saves = 1

\* C24 amended: a startup reconcile invokes persistence at most once: once,
\* with all removals applied, when it removed at least one entry (however
\* many), and not at all when no entry was stale or when a fetch raised.
C24_ReconcileSavesOnceIfPruned ==
    boot.pc = "up" =>
        /\ boot.saves = IF boot.fetched /\ DOMAIN boot.loaded \ boot.active # {}
                        THEN 1 ELSE 0
        /\ (boot.saves = 1 /\ writable) =>
              /\ store = cache
              /\ DOMAIN store = DOMAIN boot.loaded \cap boot.active

\* two entries were removed and the store was written once
C24_Witness ==
    /\ boot.pc = "up"
    /\ boot.fetched
    /\ Cardinality(DOMAIN boot.loaded \ boot.active) >= 2
    /\ DOMAIN cache # {}
    /\ boot.saves = 1
    /\ store = cache

(***************************************************************************)
(* The order of a bulk run.                                                *)
(***************************************************************************)
\* C25: a bulk run fetches the unanswered list once (the snapshot it took
\* when it began is the one it works on to its end, whatever becomes of the
\* marketplace's list); when it attempts its first submission, the generation
\* phase has had its turn for every item of the snapshot, in order, and no
\* step that submits also generates; submissions are attempted one per step,
\* in the order of the snapshot, and none begins before the one before it.
C25_FetchOnceGenerateThenSubmit ==
    [][\A j \in Runs :
          LET r == run[j]
              q == run'[j]
              pos(calls, m) == CHOOSE k \in 1 .. Len(q.feedbacks) :
                                  q.feedbacks[k].id = calls[m].id
          IN  /\ r.pc # "idle" =>
                    /\ r.fetch # "none"
                    /\ q.fetch = r.fetch
                    /\ q.feedbacks = r.feedbacks
              /\ q.calls # r.calls =>
                    /\ q.gens = r.gens
                    /\ Len(r.gens) = Len(r.feedbacks)
                    /\ \A k \in 1 .. Len(r.gens) : r.gens[k].id = r.feedbacks[k].id
                    /\ Len(q.calls) = Len(r.calls) + 1
                    /\ SubSeq(q.calls, 1, Len(r.calls)) = r.calls
              /\ \A m, n \in 1 .. Len(q.calls) :
                    m < n => /\ pos(q.calls, m) < pos(q.calls, n)
                             /\ q.calls[m].at <= q.calls[n].at]_vars

\* a finished run over a full snapshot that generated a draft and then
\* submitted for two items, while the marketplace's list shrank
C25_Witness ==
    /\ run[0].pc = "done"
    /\ Len(run[0].feedbacks) = MaxFeedbacks
    /\ \E k \in 1 .. Len(run[0].gens) : run[0].gens[k].kind = "text"
    /\ Len(run[0].calls) >= 2
    /\ Len(unanswered) < Len(run[0].feedbacks)

\* C26: a bulk run never calls the submitter for an item of its snapshot
\* whose rating is not 5, though it may have generated and cached a draft
\* for it: every call of the run is for a five-star item of the snapshot.
C26_OnlyFiveStarsSubmitted ==
    \A j \in Runs : \A m \in 1 .. Len(run[j].calls) :
        \E k \in 1 .. Len(run[j].feedbacks) :
            /\ run[j].feedbacks[k].id = run[j].calls[m].id
            /\ run[j].feedbacks[k].rating = FiveStars

\* a finished run that generated and cached a draft for a four-star item,
\* made no call for it, and did submit for a five-star item
C26_Witness ==
    /\ run[0].pc = "done"
    /\ \E k, n \in 1 .. Len(run[0].feedbacks) :
          LET low == run[0].feedbacks[k]
              top == run[0].feedbacks[n]
          IN  /\ low.rating # FiveStars
              /\ run[0].gens[k].kind = "text"
              /\ low.id \in DOMAIN cache
              /\ cache[low.id] = run[0].gens[k].out
              /\ \A m \in 1 .. Len(run[0].calls) : run[0].calls[m].id # low.id
              /\ top.rating = FiveStars
              /\ \E m \in 1 .. Len(run[0].calls) : run[0].calls[m].id = top.id


\* C27: while one voice command "reply to item N / items N, M / all items"
\* is handled, reply_to_item is called at most once for an item, whatever
\* ordinals the command names: no two calls of the loop's log carry the
\* same item.
C27_OneSubmissionPerItem ==
    \A a, b \in DOMAIN alice.calls :
        alice.calls[a].id = alice.calls[b].id => a = b


\* C30: whenever a reply request carries a structured answer with a
\* non-empty text, that text is what the submitter is handed, whatever the
\* raw text of the request and whatever the type of the item.
C30_AnswerTextTakesPrecedence ==
    [][\A text \in ReplyTexts, answer \in Answers :
          (/\ last'.op = "reply"
           /\ answer.given
           /\ answer.text # NoText
           /\ SendReply(last'.id, last'.type, text, answer)) =>
              /\ last'.sub # "none"
              /\ last'.sent = answer.text]_vars


(***************************************************************************)
(* Two jobs at once.                                                       *)
(***************************************************************************)
\* C28: two bulk passes that interleave are not kept apart.  A job that is
\* inside a call of the backend or of the marketplace, or about to take
\* its next item, can always make its step, whatever the other job is
\* doing and whatever item it is at; and when a backend call returns a
\* text that may be cached, the job writes it under the item's id even if
\* another job has written an entry since the item was found missing: the
\* last write is what the cache holds, the other entries staying as they are.
C28_NoExclusionLastWriteWins ==
    [][\A j \in Jobs :
          /\ run[j].pc = "generating" =>
                ENABLED (\E o \in BackendOutcomes : Phase1Store(j, o))
          /\ run[j].pc = "sending" =>
                ENABLED (\E net \in NetAnswers("feedbacks") : Phase2Submit(j, net))
          /\ (run[j].pc = "phase2" /\ run[j].i <= Len(run[j].feedbacks)) =>
                ENABLED Phase2Take(j)
          /\ (run[j].pc = "generating" /\ run'[j].pc = "phase1") =>
                LET g == run'[j].gens[Len(run'[j].gens)]
                IN  /\ g.id = run[j].feedbacks[run[j].i].id
                    /\ IF IsCacheable(g.out)
                       THEN cache' = Put(cache, g.id, g.out)
                       ELSE cache' = cache]_vars

\* both jobs found the item missing and generated different drafts, the
\* later write replaced the earlier, and both jobs submitted the same
\* item with the draft that was written last
C28_Witness ==
    \E j, k \in Jobs : \E a \in DOMAIN run[j].calls, b \in DOMAIN run[k].calls :
        /\ j # k
        /\ run[j].calls[a].id = run[k].calls[b].id
        /\ run[j].calls[a].outcome = "ok"
        /\ run[k].calls[b].outcome = "ok"
        /\ run[j].calls[a].text = run[k].calls[b].text
        /\ \E g \in DOMAIN run[j].gens, h \in DOMAIN run[k].gens :
              /\ run[j].gens[g].id = run[j].calls[a].id
              /\ run[k].gens[h].id = run[j].calls[a].id
              /\ run[j].gens[g].had = NoEntry
              /\ run[k].gens[h].had = NoEntry
              /\ IsCacheable(run[j].gens[g].out)
              /\ run[k].gens[h].out = run[j].calls[a].text
              /\ run[j].gens[g].out # run[j].calls[a].text


\* C29: every background job that has started (its record says "running")
\* ends with a record that says "completed" or "failed", provided its
\* thread keeps being scheduled and the calls it makes return.
C29_StartedJobEnds ==
    \A j \in Jobs :
        JobRunning(j) ~> (/\ JobId(j) \in DOMAIN job_results
                          /\ job_results[JobId(j)].status \in {"completed", "failed"})

\* both jobs have ended after running side by side: one generated a
\* draft and submitted it, the other went through its loops as well
C29_Witness ==
    /\ \A j \in Jobs : /\ JobId(j) \in DOMAIN job_results
                       /\ job_results[JobId(j)].status \in {"completed", "failed"}
    /\ \E j \in Jobs : /\ job_results[JobId(j)].status = "completed"
                       /\ run[j].calls # <<>>
                       /\ run[j].generated_count > 0
    /\ \A j \in Jobs : run[j].gens # <<>>


(***************************************************************************)
(* The variants of a draft and the cache.                                  *)
(***************************************************************************)
\* C31: a request for variants is answered from the cache, with the entry
\* as each of its three variants and no generator call, exactly when force
\* is false, no instruction is given and the item has an entry; with force
\* or with an instruction the generator is called for all three variants
\* and every variant is what a generator call gave, under the generator's
\* labels: the entry is not read.
C31_VariantsFromCacheOnlyWhenAsked ==
    [][last'.op = "multi" =>
          LET hit == ~last'.force /\ last'.prompt = NoText /\ last'.id \in DOMAIN cache
          IN  /\ last'.had = Lookup(cache, last'.id)
              /\ hit => /\ last'.gen = 0
                        /\ DOMAIN last'.variants = {"gpt", "gpt_v2", "gpt_v3"}
                        /\ \A l \in DOMAIN last'.variants :
                              last'.variants[l] = cache[last'.id]
              /\ ~hit => /\ last'.gen = 3
                         /\ DOMAIN last'.variants = {"gemini", "gemini_v2", "gemini_v3"}
                         /\ \A l \in DOMAIN last'.variants :
                               \E o \in VariantOutcomes :
                                  last'.variants[l] =
                                     generate_multiple_ai_responses([k \in 1 .. 3 |-> o])[l]]_vars

\* an instruction came without force for an item that has an entry, and
\* the three variants were generated
C31_Witness ==
    /\ last.op = "multi"
    /\ ~last.force
    /\ last.prompt # NoText
    /\ last.had # NoEntry
    /\ last.gen = 3
    /\ last.id \in DOMAIN cache
    /\ \A l \in DOMAIN last.variants : last.variants[l] # cache[last.id]


(***************************************************************************)
(* The voice webhook: the end of a session.                                *)
(***************************************************************************)
\* C32: for a webhook request that is not a Launch and carries no help
\* intent: if its command contains one of the exit words ("хватит",
\* "выйти", "выход", "стоп", "закрой", "закрыть", "отмена") or it carries
\* the intent YANDEX.REJECT, the response ends the session and nothing else
\* happens: no fetch result is kept, no draft is generated or sent, no job
\* is started.  Every other response, that of a reply by ordinals included,
\* leaves the session open, and a command that is not empty and fits no
\* branch is answered with the apology followed by the help text.
C32_ExitEndsSession ==
    [][/\ \A rq \in VoiceRequests :
            (/\ last' # last
             /\ last'.op = "alice"
             /\ CommandOf[rq] = last'.cmd
             /\ rq.body = "dict"
             /\ rq.type # "Launch"
             /\ "YANDEX.HELP" \notin rq.intents
             /\ AliceWebhook(rq)) =>
                IF \/ "YANDEX.REJECT" \in rq.intents
                   \/ \E w \in {"khvatit", "vyyti", "vykhod", "stop", "zakroy",
                                "zakryt", "otmena"} : Contains(CommandOf[rq], w)
                THEN /\ last'.op = "alice"
                     /\ last'.status = 200
                     /\ last'.end
                     /\ last'.text = Txt.exit
                     /\ UNCHANGED <<cache, store, unanswered, run, alice, job_results,
                                    job_counter, current_feedbacks_list>>
                ELSE /\ last'.status = 200 => ~last'.end
                     /\ (CommandOf[rq] # "" /\ BranchOf[rq] = "unknown") =>
                            /\ last'.status = 200
                            /\ last'.text = "Izvini, ne ponyala. " \o Txt.help
       /\ AliceReplyReturn => (last'.status = 200 /\ ~last'.end)]_vars

\* the request carried the intent YANDEX.REJECT with a command that holds
\* no exit word, and the session was ended
C32_Witness ==
    /\ last.op = "alice"
    /\ last.cmd = "net"
    /\ last.status = 200
    /\ last.end
    /\ last.text = Txt.exit


(***************************************************************************)
(* The voice webhook: questions about jobs.                                *)
(***************************************************************************)
\* C33: a question about the status of a job that names no number is
\* answered with the completed job of the greatest number, whatever running
\* and failed jobs there are, and with "no completed jobs" when no job is
\* completed; one that names a number is answered with the status of the
\* record stored under that number as it was said, and with "not found"
\* when job_results has no record under it.
C33_StatusQuery ==
    [][(/\ last' # last
        /\ last'.op = "alice"
        /\ last'.cmd \in StatusCommands) =>
          LET said == NumbersIn[last'.cmd]
              done == {j \in Jobs : /\ JobId(j) \in DOMAIN job_results
                                    /\ job_results[JobId(j)].status = "completed"}
          IN  /\ last'.status = 200
              /\ job_results' = job_results
              /\ IF said = <<>>
                 THEN IF done = {}
                      THEN last'.text = Txt.no_completed_job
                      ELSE \E j \in done :
                              /\ \A k \in done : k <= j
                              /\ last'.text = LatestText(JobId(j), job_results[JobId(j)].result)
                 ELSE IF said[1] \notin DOMAIN job_results
                      THEN last'.text = TxtJobNotFound(said[1])
                      ELSE LET rec == job_results[said[1]]
                           IN  /\ rec.status = "running" =>
                                     last'.text = TxtJobRunning(said[1])
                               /\ rec.status = "completed" =>
                                     last'.text = CompletedText(said[1], rec.result)
                               /\ rec.status = "failed" =>
                                     last'.text = TxtJobFailed(said[1])]_vars

\* job 2 is still running and the question without a number was answered
\* with job 1, which is completed
C33_Witness ==
    /\ last.op = "alice"
    /\ last.cmd = "rezultat zadachi"
    /\ "1" \in DOMAIN job_results
    /\ "2" \in DOMAIN job_results
    /\ job_results["1"].status = "completed"
    /\ job_results["2"].status = "running"
    /\ last.text = LatestText("1", job_results["1"].result)


(***************************************************************************)
(* The bulk run: the arithmetic of the summary.                            *)
(***************************************************************************)
\* C34: in the summary of a bulk run over a snapshot with distinct ids,
\* with nothing else writing the cache, total_feedbacks is generated plus
\* cached plus the number of items whose generation failed; replied_5_stars
\* plus the number of failed submissions is at most the number of 5-star
\* items of the snapshot; every key of errors is an id of the snapshot; and
\* no item is in errors both for a generation failure and for a submission
\* failure.
C34_SummaryArithmetic ==
    run[0].pc = "done" =>
        LET res == run[0].result
            ids == {run[0].feedbacks[k].id : k \in 1 .. Len(run[0].feedbacks)}
            failedCalls == {m \in 1 .. Len(run[0].calls) : run[0].calls[m].outcome # "ok"}
            genFailed == {run[0].gens[k].id : k \in TurnsFailed(0)}
            subFailed == {run[0].calls[m].id : m \in failedCalls}
        IN  /\ res.total_feedbacks =
                  res.generated + res.cached + Cardinality(TurnsFailed(0))
            /\ res.replied_5_stars + Cardinality(failedCalls)
                  <= Cardinality(FiveStarItems(0))
            /\ DOMAIN res.errors \subseteq ids
            /\ \A id \in genFailed \cap subFailed :
                  ~(id \in DOMAIN res.errors /\ res.errors[id] # ErrSendWb)


(***************************************************************************)
(* What reaches the marketplace.                                           *)
(***************************************************************************)
\* C35: no reply text the bulk run sends to the marketplace is a failure
\* message of the generator: neither a string generate_ai_response returns
\* from one of its except branches nor the placeholder that
\* generate_multiple_ai_responses puts in the slot of a failed variant.
C35_NoFailureTextIsSent ==
    \A m \in 1 .. Len(run[0].calls) :
        run[0].calls[m].text \notin
            {generate_ai_response(o) : o \in FailureOutcomes} \cup {ErrVariant}


(***************************************************************************)
(* The startup reconcile when the marketplace cannot be reached.           *)
(***************************************************************************)
\* C36: when the fetch of the unanswered feedbacks or the fetch of the
\* unanswered questions fails during startup, the reconcile removes no
\* entry: the cache is the cache as loaded.
C36_FailedFetchRemovesNothing ==
    [][\A fnet, qnet \in BOOLEAN, qs \in SUBSET (1 .. MaxFeedbacks) :
          (/\ ~fnet \/ ~qnet
           /\ StartupEvent(fnet, qnet, qs)
           /\ boot'.pc = "up") => cache' = boot'.loaded]_vars


(***************************************************************************)
(* The voice webhook: a job between its announcement and its start.        *)
(***************************************************************************)
\* C37: once the webhook has answered a bulk command with the job number j
\* (job_counter has reached j), a question about the status of job j finds
\* a record, running, completed or failed, and is never answered with
\* "job j is not found".
C37_AnnouncedJobIsFound ==
    [][\A j \in Jobs :
          (/\ last' # last
           /\ last'.op = "alice"
           /\ last'.cmd = "status zadachi " \o JobId(j)
           /\ j <= job_counter) =>
              /\ JobId(j) \in DOMAIN job_results
              /\ last'.text # TxtJobNotFound(JobId(j))]_vars


(***************************************************************************)
(* The voice webhook: ordinals after an answer.                            *)
(***************************************************************************)
\* C38: once an item has been submitted with success by a reply by
\* ordinals, no later reply by ordinals takes a turn of its loop for that
\* item (a turn is a call of the generator or of the submitter): the item
\* the loop stands at is still unanswered at the marketplace, or was
\* answered by the command that is being served.
C38_OrdinalsSkipAnsweredItems ==
    [][(/\ alice.pc = "replying"
        /\ alice.i <= Len(alice.valid_numbers)
        /\ alice' # alice) =>
          LET item_id == current_feedbacks_list[alice.valid_numbers[alice.i]].id
          IN  \/ \E k \in DOMAIN unanswered : unanswered[k].id = item_id
              \/ \E m \in DOMAIN alice.calls :
                    alice.calls[m].id = item_id /\ alice.calls[m].outcome = "ok"]_vars


(***************************************************************************)
(* The store follows the cache.                                            *)
(***************************************************************************)
\* C39: while the store can be written and holds a mapping, the store
\* equals the cache whenever no bulk run is inside its generation phase
\* (so whenever nothing is in progress), and the step that ends the
\* generation phase of a run is one write that makes them equal.
C39_StoreFollowsCache ==
    [][(writable' /\ file'.kind = "mapping") =>
          /\ ((\A j \in Runs : run'[j].pc # "phase1") => store' = cache')
          /\ \A j \in Runs :
                (run[j].pc = "phase1" /\ run'[j].pc # "phase1") =>
                    /\ store' = cache'
                    /\ cache' = cache]_vars

\* a run is over that generated a draft for every item and sent none, and
\* the drafts are in the store
C39_Witness ==
    /\ run[0].pc = "done"
    /\ run[0].generated_count = MaxFeedbacks
    /\ run[0].replied_count = 0
    /\ Cardinality(DOMAIN cache) = MaxFeedbacks
    /\ store = cache
    /\ writable

=============================================================================
